---- MODULE Spec2Model ----
(***************************************************************************)
(* prd-zero: the heuristic classification-and-protection engine.           *)
(*                                                                         *)
(* The validators, the scorer and the classifier are pure functions; each  *)
(* is an operator computed the way the TypeScript computes it, and each    *)
(* specification draws the arguments of a call in its initial state and    *)
(* applies the functions in its actions.                                   *)
(*                                                                         *)
(* Representation.                                                         *)
(*  - A JavaScript string is a sequence of one-character strings, so that  *)
(*    String.prototype.includes / toLowerCase / split / length are         *)
(*    computed on characters.                                              *)
(*  - analyzeFeatureComplexity's score is a multiple of 0.5; the model     *)
(*    keeps score2 = 2 * score as an integer.                              *)
(*  - validateSoloDeveloperCapacity's fractional quantities are kept as    *)
(*    exact fractions over the timeline (see there).                       *)
(***************************************************************************)
EXTENDS Integers, Sequences, FiniteSets, TLC

VARIABLES
  pc,              \* "start", then the step reached in the function being
                   \* applied, or the method of the service that returned
  args,            \* the arguments of the call
  locals,          \* the local variables of a function that runs in several steps
  ret,             \* the value returned
  history,         \* ContextMemoryService.history
  projectContext,  \* ContextMemoryService.projectContext
  cachedContext,   \* ContextMemoryService.cachedContext (the caching service)
  contextDirty     \* ContextMemoryService.contextDirty (the caching service)

\* The fields of the ContextMemoryService object.
serviceVars == <<history, projectContext, cachedContext, contextDirty>>

vars == <<pc, args, locals, ret, history, projectContext, cachedContext, contextDirty>>

\* The value of locals outside a function that runs in several steps.
NoLocals == [none |-> TRUE]

\* The value of ret before any function has returned.
NoResult == [none |-> TRUE]

\* An optional property of an object: undefined, or set to a value.
Undefined == [defined |-> FALSE, value |-> <<>>]

Defined(v) == [defined |-> TRUE, value |-> v]

\* private projectContext: ProjectContext = {}
EmptyContext ==
  [ name |-> Undefined, description |-> Undefined, targetAudience |-> Undefined,
    problem |-> Undefined, solution |-> Undefined, uniqueValue |-> Undefined,
    features |-> Undefined, techStack |-> Undefined, timeline |-> Undefined,
    risks |-> Undefined, successMetrics |-> Undefined ]

\* The object as its field initialisers leave it: history = [],
\* projectContext = {}, cachedContext = null, contextDirty = false.
Constructed ==
  /\ history = <<>>
  /\ projectContext = EmptyContext
  /\ cachedContext = Undefined
  /\ contextDirty = FALSE

(***************************************************************************)
(* JavaScript string primitives                                            *)
(***************************************************************************)

\* String.prototype.toLowerCase on the characters the model uses.
UpperToLower ==
  ("A" :> "a") @@ ("B" :> "b") @@ ("C" :> "c") @@ ("D" :> "d") @@ ("E" :> "e") @@ ("F" :> "f") @@
  ("G" :> "g") @@ ("H" :> "h") @@ ("I" :> "i") @@ ("J" :> "j") @@ ("K" :> "k") @@ ("L" :> "l") @@
  ("M" :> "m") @@ ("N" :> "n") @@ ("O" :> "o") @@ ("P" :> "p") @@ ("Q" :> "q") @@ ("R" :> "r") @@
  ("S" :> "s") @@ ("T" :> "t") @@ ("U" :> "u") @@ ("V" :> "v") @@ ("W" :> "w") @@ ("X" :> "x") @@
  ("Y" :> "y") @@ ("Z" :> "z")

toLowerCaseChar(c) == IF c \in DOMAIN UpperToLower THEN UpperToLower[c] ELSE c

toLowerCase(s) == [i \in 1..Len(s) |-> toLowerCaseChar(s[i])]

\* String.prototype.includes: k occurs in s as a contiguous substring
\* (the empty string occurs in every string).
includes(s, k) ==
  \/ Len(k) = 0
  \/ \E i \in 1..(Len(s) - Len(k) + 1) :
       /\ s[i] = k[1]
       /\ SubSeq(s, i, i + Len(k) - 1) = k

\* Array.prototype.filter
filter(seq, Test(_)) == SelectSeq(seq, Test)

\* Array.prototype.some
some(seq, Test(_)) == \E i \in 1..Len(seq) : Test(seq[i])

\* Math.ceil(n / d) and Math.floor(n / d) for integers n and d > 0.
CeilDiv(n, d) == -((-n) \div d)

FloorDiv(n, d) == n \div d

\* Concatenation of a sequence of strings.
RECURSIVE Concat(_)
Concat(ss) == IF ss = <<>> THEN <<>> ELSE Head(ss) \o Concat(Tail(ss))

\* String.prototype.split on a one-character separator: the pieces between
\* the separators, empty pieces included ("" splits into one empty piece).
RECURSIVE split(_, _)
split(s, sep) ==
  IF \A i \in 1..Len(s) : s[i] # sep THEN << s >>
  ELSE LET i == CHOOSE j \in 1..Len(s) :
                  s[j] = sep /\ \A k \in 1..(j - 1) : s[k] # sep
       IN << SubSeq(s, 1, i - 1) >> \o split(SubSeq(s, i + 1, Len(s)), sep)

\* Array.prototype.join
RECURSIVE join(_, _)
join(ss, sep) ==
  IF ss = <<>> THEN <<>>
  ELSE IF Len(ss) = 1 THEN ss[1]
  ELSE ss[1] \o sep \o join(Tail(ss), sep)

\* A JavaScript number that may fail to be finite: an integer, NaN (an
\* invalid date, 0 / 0) or +Infinity (n / 0 for n > 0).
Num(v) == [kind |-> "finite", value |-> v]

NaN == [kind |-> "NaN", value |-> 0]

Infinity == [kind |-> "Infinity", value |-> 0]

isFinite(x) == x.kind = "finite"

\* x >= k, x <= k, x < k, x > k for such a number x and an integer k; every
\* comparison with NaN is false.
numGeq(x, k) == \/ x.kind = "finite" /\ x.value >= k
                \/ x.kind = "Infinity"

numLeq(x, k) == x.kind = "finite" /\ x.value <= k

numLess(x, k) == x.kind = "finite" /\ x.value < k

numGreater(x, k) == \/ x.kind = "finite" /\ x.value > k
                    \/ x.kind = "Infinity"

\* n / d < k, n / d <= k and n / d > k for integers n, k and d >= 0, as
\* IEEE division decides them: n / 0 is +Infinity, -Infinity or NaN.
quotientLess(n, d, k) == IF d > 0 THEN n < k * d ELSE n < 0

quotientAtMost(n, d, k) == IF d > 0 THEN n <= k * d ELSE n < 0

quotientAbove(n, d, k) == IF d > 0 THEN n > k * d ELSE n > 0

quotientAtLeast(n, d, k) == IF d > 0 THEN n >= k * d ELSE n > 0

\* All sequences over S of length at most n.
SeqsUpTo(S, n) == UNION {[1..k -> S] : k \in 0..n}

(***************************************************************************)
(* scopeProtection.ts: keyword tables                                      *)
(***************************************************************************)

COMPLEXITY_KEYWORDS_high ==
  << <<"A","I">>,
     <<"M","L">>,
     <<"m","a","c","h","i","n","e"," ","l","e","a","r","n","i","n","g">>,
     <<"a","r","t","i","f","i","c","i","a","l"," ","i","n","t","e","l","l","i","g","e","n","c","e">>,
     <<"b","l","o","c","k","c","h","a","i","n">>,
     <<"c","r","y","p","t","o">>,
     <<"w","e","b","3">>,
     <<"N","F","T">>,
     <<"r","e","a","l","-","t","i","m","e">>,
     <<"w","e","b","s","o","c","k","e","t">>,
     <<"s","t","r","e","a","m","i","n","g">>,
     <<"s","c","a","l","a","b","l","e">>,
     <<"m","i","c","r","o","s","e","r","v","i","c","e","s">>,
     <<"d","i","s","t","r","i","b","u","t","e","d">>,
     <<"3","D">>,
     <<"V","R">>,
     <<"A","R">>,
     <<"m","e","t","a","v","e","r","s","e">>,
     <<"m","a","r","k","e","t","p","l","a","c","e">>,
     <<"p","l","a","t","f","o","r","m">>,
     <<"e","c","o","s","y","s","t","e","m">>,
     <<"s","o","c","i","a","l"," ","n","e","t","w","o","r","k">>,
     <<"c","o","m","m","u","n","i","t","y"," ","p","l","a","t","f","o","r","m">> >>

COMPLEXITY_KEYWORDS_medium ==
  << <<"p","a","y","m","e","n","t">>,
     <<"s","u","b","s","c","r","i","p","t","i","o","n">>,
     <<"b","i","l","l","i","n","g">>,
     <<"a","u","t","h","e","n","t","i","c","a","t","i","o","n">>,
     <<"a","u","t","h","o","r","i","z","a","t","i","o","n">>,
     <<"S","S","O">>,
     <<"n","o","t","i","f","i","c","a","t","i","o","n">>,
     <<"e","m","a","i","l">>,
     <<"S","M","S">>,
     <<"f","i","l","e"," ","u","p","l","o","a","d">>,
     <<"i","m","a","g","e"," ","p","r","o","c","e","s","s","i","n","g">>,
     <<"s","e","a","r","c","h">>,
     <<"f","i","l","t","e","r","i","n","g">>,
     <<"s","o","r","t","i","n","g">>,
     <<"d","a","s","h","b","o","a","r","d">>,
     <<"a","n","a","l","y","t","i","c","s">>,
     <<"r","e","p","o","r","t","i","n","g">> >>

COMPLEXITY_KEYWORDS_low ==
  << <<"f","o","r","m">>,
     <<"C","R","U","D">>,
     <<"l","i","s","t">>,
     <<"d","i","s","p","l","a","y">>,
     <<"s","t","a","t","i","c">>,
     <<"l","a","n","d","i","n","g"," ","p","a","g","e">>,
     <<"b","l","o","g">>,
     <<"c","o","n","t","a","c","t">>,
     <<"a","b","o","u","t">>,
     <<"F","A","Q">> >>

SCOPE_CREEP_PHRASES ==
  << <<"a","n","d"," ","a","l","s","o">>,
     <<"p","l","u","s">>,
     <<"i","n"," ","a","d","d","i","t","i","o","n">>,
     <<"f","u","r","t","h","e","r","m","o","r","e">>,
     <<"a","s"," ","w","e","l","l"," ","a","s">>,
     <<"a","l","o","n","g"," ","w","i","t","h">>,
     <<"e","v","e","r","y","t","h","i","n","g">>,
     <<"a","l","l"," ","f","e","a","t","u","r","e","s">>,
     <<"c","o","m","p","l","e","t","e"," ","s","o","l","u","t","i","o","n">>,
     <<"f","u","l","l"," ","p","l","a","t","f","o","r","m">> >>

\* feature.length > 100 adds a point (scopeProtection.ts:98)
LengthLimit == 100

(***************************************************************************)
(* scopeProtection.ts: analyzeFeatureComplexity                            *)
(***************************************************************************)

\* if (score <= 3) ... else if (score <= 5) ... else if (score <= 8) ... else
\* (in halves: 3 -> 6, 5 -> 10, 8 -> 16).
levelOf(score2) ==
  IF score2 <= 6 THEN "low"
  ELSE IF score2 <= 10 THEN "medium"
  ELSE IF score2 <= 16 THEN "high"
  ELSE "extreme"

capScore_uncapped(score2) == score2

\* score = Math.min(10, score)
capScore(score2) == IF score2 < 20 THEN score2 ELSE 20

exceedsLength_inclusive(feature) == Len(feature) >= LengthLimit

\* feature.length > 100
exceedsLength(feature) == Len(feature) > LengthLimit

\* Math.ceil(score / 2)
estimateWeeks(score2) == CeilDiv(score2, 4)

\* COMPLEXITY_KEYWORDS.<tier>.filter(keyword =>
\*   featureLower.includes(keyword.toLowerCase()))
keywordMatches_equal(featureLower, tier) ==
  filter(tier, LAMBDA keyword : featureLower = toLowerCase(keyword))

keywordMatches(featureLower, tier) ==
  filter(tier, LAMBDA keyword : includes(featureLower, toLowerCase(keyword)))

\* SCOPE_CREEP_PHRASES.some(phrase => featureLower.includes(phrase))
scopeCreep(featureLower) ==
  some(SCOPE_CREEP_PHRASES, LAMBDA phrase : includes(featureLower, phrase))

rawScore2_highOnce(feature, highComplexityMatches, mediumComplexityMatches, scopeCreepDetected) ==
  2 + (IF Len(highComplexityMatches) > 0 THEN 6 ELSE 0)
    + (IF Len(mediumComplexityMatches) > 0
         THEN Len(mediumComplexityMatches) * 3 ELSE 0)
    + (IF scopeCreepDetected THEN 4 ELSE 0)
    + (IF exceedsLength(feature) THEN 2 ELSE 0)

\* score = 1; += 3 per high match; += 1.5 per medium match; += 2 for scope
\* creep; += 1 for an over-long description (in halves, before the cap)
rawScore2(feature, highComplexityMatches, mediumComplexityMatches, scopeCreepDetected) ==
  2 + (IF Len(highComplexityMatches) > 0
         THEN Len(highComplexityMatches) * 6 ELSE 0)
    + (IF Len(mediumComplexityMatches) > 0
         THEN Len(mediumComplexityMatches) * 3 ELSE 0)
    + (IF scopeCreepDetected THEN 4 ELSE 0)
    + (IF exceedsLength(feature) THEN 2 ELSE 0)

complexityWarnings(feature, highComplexityMatches, mediumComplexityMatches, scopeCreepDetected) ==
  (IF Len(highComplexityMatches) > 0
     THEN << [warning |-> "High complexity detected",
              matches |-> highComplexityMatches] >> ELSE <<>>) \o
  (IF Len(mediumComplexityMatches) > 0
     THEN << [warning |-> "Medium complexity elements",
              matches |-> mediumComplexityMatches] >> ELSE <<>>) \o
  (IF scopeCreepDetected
     THEN << [warning |-> "Multiple sub-features detected - consider splitting",
              matches |-> <<>>] >> ELSE <<>>) \o
  (IF exceedsLength(feature)
     THEN << [warning |-> "Feature description too detailed - might be multiple features",
              matches |-> <<>>] >> ELSE <<>>)

\* The returned ComplexityScore for a capped score and the warnings.
ComplexityScore(score2, warnings) ==
  [ score2         |-> score2,
    level          |-> levelOf(score2),
    warnings       |-> warnings,
    estimatedWeeks |-> estimateWeeks(score2) ]

\* Lines 82-121, once the matches are known.
scoreMatches(feature, highComplexityMatches, mediumComplexityMatches, scopeCreepDetected) ==
  ComplexityScore(
    capScore(rawScore2(feature, highComplexityMatches,
                       mediumComplexityMatches, scopeCreepDetected)),
    complexityWarnings(feature, highComplexityMatches,
                       mediumComplexityMatches, scopeCreepDetected))

\* Lines 65-121, once featureLower is known.
analyzeLower(feature, featureLower) ==
  scoreMatches(feature,
               keywordMatches(featureLower, COMPLEXITY_KEYWORDS_high),
               keywordMatches(featureLower, COMPLEXITY_KEYWORDS_medium),
               scopeCreep(featureLower))

analyzeFeatureComplexity(feature) == analyzeLower(feature, toLowerCase(feature))

(***************************************************************************)
(* Specification of the complexity analyzer: one call on a feature text.   *)
(***************************************************************************)

\* Feature texts are built from these fragments, optionally after a filler
\* that brings the text to the length limit.
FeatureFragments ==
  { <<"A","I">>,
    <<"s","e","a","r","c","h">>,
    <<"p","l","u","s">>,
    <<"b","l","o","c","k","c","h","a","i","n">>,
    <<"p","a","y","m","e","n","t">>,
    <<"c","h","a","t">>,
    <<"l","i","s","t">>,
    <<" ">> }

MaxFrags == 3

Filler == [i \in 1..(LengthLimit - 2) |-> "x"]

FeatureTexts ==
  { pad \o Concat(fs) : pad \in {<<>>, Filler},
                        fs \in SeqsUpTo(FeatureFragments, MaxFrags) }

InitAnalyzer ==
  /\ pc = "start"
  /\ args \in [feature : FeatureTexts]
  /\ locals = NoLocals
  /\ ret = NoResult
  /\ Constructed

AnalyzeFeature ==
  /\ pc = "start"
  /\ pc' = "analyzeFeatureComplexity"
  /\ ret' = analyzeFeatureComplexity(args.feature)
  /\ UNCHANGED <<args, locals>>
  /\ UNCHANGED serviceVars

NextAnalyzer == AnalyzeFeature

SpecAnalyzer == InitAnalyzer /\ [][NextAnalyzer]_vars

(***************************************************************************)
(* Claims about analyzeFeatureComplexity                                   *)
(***************************************************************************)

Analyzed == pc = "analyzeFeatureComplexity"

\* C3: for every feature string the returned score lies in [1, 10] and
\* estimatedWeeks is ceil(score / 2): the least integer w with 2 * w >= score,
\* hence an integer between 1 and 5.
C3_ScoreClampedWeeksCeil ==
  Analyzed =>
    /\ 2 <= ret.score2 /\ ret.score2 <= 20
    /\ ret.estimatedWeeks \in 1..5
    /\ 4 * ret.estimatedWeeks >= ret.score2
    /\ 4 * (ret.estimatedWeeks - 1) < ret.score2

\* C3 witness: a feature whose keyword hits exceed the cap (three high matches
\* and a medium one: 1 + 9 + 1.5) is returned with score 10 and 5 weeks.
C3_Witness ==
  /\ Analyzed
  /\ ret.score2 = 20 /\ ret.estimatedWeeks = 5
  /\ Len(ret.warnings) >= 2
  /\ Len(ret.warnings[1].matches) >= 3

\* Some keyword of the table occurs in the feature, case-insensitively.
ContainsAnyOf(feature, table) ==
  \E i \in 1..Len(table) :
    includes(toLowerCase(feature), toLowerCase(table[i]))

NoComplexityKeyword(feature) ==
  /\ ~ContainsAnyOf(feature, COMPLEXITY_KEYWORDS_high)
  /\ ~ContainsAnyOf(feature, COMPLEXITY_KEYWORDS_medium)
  /\ ~ContainsAnyOf(feature, COMPLEXITY_KEYWORDS_low)

\* C4 as stated: a feature of length <= 100 containing none of the
\* COMPLEXITY_KEYWORDS has score 1 and level low.
C4_Original ==
  (Analyzed /\ Len(args.feature) <= 100 /\ NoComplexityKeyword(args.feature))
    => (ret.score2 = 2 /\ ret.level = "low")

\* C4 amended: a feature of length <= 100 containing none of the
\* COMPLEXITY_KEYWORDS and none of the SCOPE_CREEP_PHRASES has score 1 and
\* level low.
C4_NoKeywordNoCreepScoresOne ==
  (Analyzed /\ Len(args.feature) <= 100 /\ NoComplexityKeyword(args.feature)
            /\ ~ContainsAnyOf(args.feature, SCOPE_CREEP_PHRASES))
    => (ret.score2 = 2 /\ ret.level = "low")

\* C4 witness: a keyword-free feature of exactly 100 characters was analyzed.
C4_Witness ==
  /\ Analyzed
  /\ Len(args.feature) = 100
  /\ NoComplexityKeyword(args.feature)
  /\ ~ContainsAnyOf(args.feature, SCOPE_CREEP_PHRASES)
  /\ ret.score2 = 2

(***************************************************************************)
(* questionTypeDetector.ts: QuestionTypeDetector                           *)
(***************************************************************************)

QUESTION_CONFIGS ==
  << [ type |-> "problem_validation",
       keywordSets |-> <<
           [ keywords |-> << <<"p","r","o","b","l","e","m">>,
                             <<"i","s","s","u","e">>,
                             <<"p","a","i","n">>,
                             <<"c","h","a","l","l","e","n","g","e">>,
                             <<"d","i","f","f","i","c","u","l","t","y">> >>,
             weight |-> 3 ],
           [ keywords |-> << <<"s","o","l","v","e">>,
                             <<"s","o","l","u","t","i","o","n">>,
                             <<"a","d","d","r","e","s","s">>,
                             <<"f","i","x">> >>,
             weight |-> 2 ],
           [ keywords |-> << <<"t","a","r","g","e","t">>,
                             <<"a","u","d","i","e","n","c","e">>,
                             <<"u","s","e","r">>,
                             <<"c","u","s","t","o","m","e","r">> >>,
             weight |-> 2 ],
           [ keywords |-> << <<"w","h","y">>,
                             <<"n","e","e","d">>,
                             <<"r","e","q","u","i","r","e">> >>,
             weight |-> 1 ] >>,
       minScore |-> 3 ],
     [ type |-> "value_proposition",
       keywordSets |-> <<
           [ keywords |-> << <<"v","a","l","u","e">>,
                             <<"b","e","n","e","f","i","t">>,
                             <<"p","r","o","p","o","s","i","t","i","o","n">>,
                             <<"u","n","i","q","u","e">> >>,
             weight |-> 3 ],
           [ keywords |-> << <<"m","e","t","r","i","c">>,
                             <<"m","e","a","s","u","r","e">>,
                             <<"s","u","c","c","e","s","s">>,
                             <<"k","p","i">> >>,
             weight |-> 2 ],
           [ keywords |-> << <<"d","i","f","f","e","r","e","n","t">>,
                             <<"b","e","t","t","e","r">>,
                             <<"c","o","m","p","a","r","e","d">>,
                             <<"a","l","t","e","r","n","a","t","i","v","e">> >>,
             weight |-> 2 ],
           [ keywords |-> << <<"o","f","f","e","r">>,
                             <<"p","r","o","v","i","d","e">>,
                             <<"d","e","l","i","v","e","r">> >>,
             weight |-> 1 ] >>,
       minScore |-> 3 ],
     [ type |-> "mvp_scope",
       keywordSets |-> <<
           [ keywords |-> << <<"f","e","a","t","u","r","e">>,
                             <<"f","u","n","c","t","i","o","n","a","l","i","t","y">>,
                             <<"c","a","p","a","b","i","l","i","t","y">> >>,
             weight |-> 3 ],
           [ keywords |-> << <<"m","v","p">>,
                             <<"m","i","n","i","m","u","m">>,
                             <<"c","o","r","e">>,
                             <<"e","s","s","e","n","t","i","a","l">> >>,
             weight |-> 3 ],
           [ keywords |-> << <<"s","c","o","p","e">>,
                             <<"i","n","c","l","u","d","e">>,
                             <<"e","x","c","l","u","d","e">>,
                             <<"o","u","t"," ","o","f"," ","s","c","o","p","e">> >>,
             weight |-> 2 ],
           [ keywords |-> << <<"l","i","s","t">>,
                             <<"w","h","a","t">>,
                             <<"w","h","i","c","h">> >>,
             weight |-> 1 ] >>,
       minScore |-> 3 ],
     [ type |-> "tech_stack",
       keywordSets |-> <<
           [ keywords |-> << <<"t","e","c","h","n","o","l","o","g","y">>,
                             <<"t","e","c","h">>,
                             <<"s","t","a","c","k">>,
                             <<"f","r","a","m","e","w","o","r","k">> >>,
             weight |-> 3 ],
           [ keywords |-> << <<"d","a","t","a","b","a","s","e">>,
                             <<"b","a","c","k","e","n","d">>,
                             <<"f","r","o","n","t","e","n","d">>,
                             <<"a","p","i">> >>,
             weight |-> 3 ],
           [ keywords |-> << <<"a","r","c","h","i","t","e","c","t","u","r","e">>,
                             <<"i","n","f","r","a","s","t","r","u","c","t","u","r","e">>,
                             <<"p","l","a","t","f","o","r","m">> >>,
             weight |-> 2 ],
           [ keywords |-> << <<"l","a","n","g","u","a","g","e">>,
                             <<"t","o","o","l">>,
                             <<"l","i","b","r","a","r","y">>,
                             <<"s","e","r","v","i","c","e">> >>,
             weight |-> 2 ],
           [ keywords |-> << <<"u","s","e">>,
                             <<"c","h","o","o","s","e">>,
                             <<"s","e","l","e","c","t">> >>,
             weight |-> 1 ] >>,
       minScore |-> 3 ],
     [ type |-> "launch_plan",
       keywordSets |-> <<
           [ keywords |-> << <<"l","a","u","n","c","h">>,
                             <<"r","e","l","e","a","s","e">>,
                             <<"d","e","p","l","o","y">>,
                             <<"s","h","i","p">> >>,
             weight |-> 3 ],
           [ keywords |-> << <<"t","i","m","e","l","i","n","e">>,
                             <<"s","c","h","e","d","u","l","e">>,
                             <<"w","e","e","k">>,
                             <<"m","o","n","t","h">>,
                             <<"d","e","a","d","l","i","n","e">> >>,
             weight |-> 3 ],
           [ keywords |-> << <<"m","a","r","k","e","t","i","n","g">>,
                             <<"g","o","-","t","o","-","m","a","r","k","e","t">>,
                             <<"g","t","m">>,
                             <<"s","t","r","a","t","e","g","y">> >>,
             weight |-> 2 ],
           [ keywords |-> << <<"m","i","l","e","s","t","o","n","e">>,
                             <<"p","h","a","s","e">>,
                             <<"s","t","e","p">> >>,
             weight |-> 2 ],
           [ keywords |-> << <<"w","h","e","n">>,
                             <<"h","o","w"," ","l","o","n","g">>,
                             <<"d","u","r","a","t","i","o","n">> >>,
             weight |-> 1 ] >>,
       minScore |-> 3 ] >>

GENERIC == "generic"

\* keywordSet.keywords.filter(keyword =>
\*   lowerText.includes(keyword.toLowerCase())).length
matchCount(lowerText, keywordSet) ==
  Len(filter(keywordSet.keywords,
             LAMBDA keyword : includes(lowerText, toLowerCase(keyword))))

\* The inner loop: score += keywordSet.weight * matchCount, set by set.
RECURSIVE sumKeywordSets(_, _)
sumKeywordSets(lowerText, keywordSets) ==
  IF keywordSets = <<>> THEN 0
  ELSE (IF matchCount(lowerText, Head(keywordSets)) > 0
          THEN Head(keywordSets).weight * matchCount(lowerText, Head(keywordSets))
          ELSE 0)
       + sumKeywordSets(lowerText, Tail(keywordSets))

\* The scores map: one entry per configuration, keyed here by its position.
typeScores(questionText) ==
  LET lowerText == toLowerCase(questionText)
  IN [i \in 1..Len(QUESTION_CONFIGS) |->
        sumKeywordSets(lowerText, QUESTION_CONFIGS[i].keywordSets)]

replacesBest_lastWins(score, minScore, bestScore) ==
  score >= minScore /\ score >= bestScore

replacesBest_strictThreshold(score, minScore, bestScore) ==
  score > minScore /\ score > bestScore

\* if (score >= config.minScore && score > bestScore)
replacesBest(score, minScore, bestScore) ==
  score >= minScore /\ score > bestScore

\* The second loop, from configuration i on, with the best found so far.
RECURSIVE pickBest(_, _, _, _)
pickBest(scores, i, bestType, bestScore) ==
  IF i > Len(QUESTION_CONFIGS) THEN bestType
  ELSE IF replacesBest(scores[i], QUESTION_CONFIGS[i].minScore, bestScore)
         THEN pickBest(scores, i + 1, QUESTION_CONFIGS[i].type, scores[i])
         ELSE pickBest(scores, i + 1, bestType, bestScore)

detectType(questionText) == pickBest(typeScores(questionText), 1, GENERIC, 0)

(***************************************************************************)
(* Specification of the classifier: one detectType call on a question.     *)
(***************************************************************************)

QuestionFragments ==
  { <<"p","r","o","b","l","e","m">>,
    <<"d","a","t","a","b","a","s","e">>,
    <<"f","e","a","t","u","r","e">>,
    <<"w","h","a","t">>,
    <<"U","s","e">>,
    <<"u","s","e","r">>,
    <<"v","a","l","u","e">>,
    <<" ">> }

MaxQuestionFrags == 3

\* Scenario E: "What database and backend framework will you use?"
ScenarioE == <<"W","h","a","t"," ","d","a","t","a","b","a","s","e"," ","a","n","d"," ","b","a","c","k","e","n","d"," ","f","r","a","m","e","w","o","r","k"," ","w","i","l","l"," ","y","o","u"," ","u","s","e","?">>

QuestionTexts ==
  { Concat(fs) : fs \in SeqsUpTo(QuestionFragments, MaxQuestionFrags) }
    \cup { ScenarioE }

InitClassifier ==
  /\ pc = "start"
  /\ args \in [questionText : QuestionTexts]
  /\ locals = NoLocals
  /\ ret = NoResult
  /\ Constructed

DetectType ==
  /\ pc = "start"
  /\ pc' = "detectType"
  /\ ret' = detectType(args.questionText)
  /\ UNCHANGED <<args, locals>>
  /\ UNCHANGED serviceVars

NextClassifier == DetectType

SpecClassifier == InitClassifier /\ [][NextClassifier]_vars

(***************************************************************************)
(* Claims about QuestionTypeDetector.detectType                            *)
(***************************************************************************)

Detected == pc = "detectType"

ConfigIndex == 1..Len(QUESTION_CONFIGS)

\* The configurations whose score for the question reaches their minScore.
Eligible(questionText) ==
  { i \in ConfigIndex :
      typeScores(questionText)[i] >= QUESTION_CONFIGS[i].minScore }

\* C6, the rule: among the eligible types detectType returns one of highest
\* score, and among several of the highest score the one declared first.
C6_Selection ==
  (Detected /\ Eligible(args.questionText) # {}) =>
    LET S == typeScores(args.questionText)
        E == Eligible(args.questionText)
    IN \E i \in E :
         /\ ret = QUESTION_CONFIGS[i].type
         /\ \A j \in E : S[j] <= S[i]
         /\ \A j \in E : S[j] = S[i] => i <= j

\* C6 witness: two eligible types tie on the highest score and the first
\* declared of them was returned.
C6_Witness ==
  /\ Detected
  /\ LET S == typeScores(args.questionText)
         E == Eligible(args.questionText)
     IN \E i, j \in E :
          /\ i < j /\ S[i] = S[j]
          /\ \A k \in E : S[k] <= S[i]
          /\ ret = QUESTION_CONFIGS[i].type

\* C6, the example: Scenario E is classified tech_stack, its tech-stack score
\* is at least 3 and above every other type's score.
C6_ScenarioE ==
  (Detected /\ args.questionText = ScenarioE) =>
    /\ ret = "tech_stack"
    /\ typeScores(ScenarioE)[4] >= 3
    /\ \A j \in ConfigIndex \ {4} : typeScores(ScenarioE)[j] < typeScores(ScenarioE)[4]

\* C6: the selection rule, with its example.
C6_HighestScoreFirstDeclaredWins == C6_Selection /\ C6_ScenarioE

\* C7: detectType returns generic exactly when no type's score reaches its
\* minScore.
C7_GenericIffNoneEligible ==
  Detected => (ret = GENERIC <=> Eligible(args.questionText) = {})

\* C7 witness: a question with keyword hits (a score of 1 or 2 for some type)
\* but none reaching 3 was classified generic.
C7_Witness ==
  /\ Detected
  /\ ret = GENERIC
  /\ \E i \in ConfigIndex : typeScores(args.questionText)[i] > 0

\* C7 witness of the other direction: a type scoring exactly its minScore
\* was returned.
C7_WitnessAtThreshold ==
  /\ Detected
  /\ ret # GENERIC
  /\ \A i \in ConfigIndex : typeScores(args.questionText)[i] <= 3

(***************************************************************************)
(* prdZeroSchemas (part_008): validateScopeProtection                      *)
(***************************************************************************)

tooManyFeatures_inclusive(featureCount) == featureCount >= 5

\* if (featureCount > 5)
tooManyFeatures(featureCount) == featureCount > 5

validateScopeProtection(features, timeline) ==
  LET featureCount == Len(features)
      \* weeksPerFeature = timeline / featureCount
  IN IF quotientLess(timeline, featureCount, 1)
       THEN [ valid |-> FALSE,
              message |-> "Impossible timeline - less than 1 week per feature" ]
     ELSE IF quotientLess(timeline, featureCount, 2) /\ featureCount > 3
       THEN [ valid |-> FALSE,
              message |-> "Risky timeline - not enough time per feature" ]
     ELSE IF tooManyFeatures(featureCount)
       THEN [ valid |-> FALSE,
              message |-> "Too many features for MVP" ]
     ELSE [ valid |-> TRUE,
            message |-> "Scope is reasonable for timeline" ]

(***************************************************************************)
(* prdZeroSchemas (part_008): calculateMVPReadiness                        *)
(***************************************************************************)

\* Instants are counted in half days; a date string "YYYY-MM-DD" is the day
\* number it names, parsed by new Date(.) to that day's UTC midnight, and an
\* unparseable one to an invalid Date, whose getTime() is NaN.
DateString(day) == [valid |-> TRUE, day |-> day]

InvalidDate == [valid |-> FALSE, day |-> 0]

getTime(date) == IF date.valid THEN Num(2 * date.day) ELSE NaN

\* Math.ceil((targetDate.getTime() - today.getTime()) / (1000*60*60*24*7))
weeksUntil(target_date, today) ==
  IF isFinite(getTime(target_date))
    THEN Num(CeilDiv(getTime(target_date).value - today, 14))
    ELSE NaN

\* Problem clarity (20 points)
problemRule(pain_level) ==
  IF pain_level >= 8
    THEN [deduct |-> 0, strengths |-> <<"Strong problem validation">>,
          weaknesses |-> <<>>, blockers |-> <<>>]
  ELSE IF pain_level < 6
    THEN [deduct |-> 20, strengths |-> <<>>,
          weaknesses |-> <<"Weak problem validation">>, blockers |-> <<>>]
  ELSE [deduct |-> 10, strengths |-> <<>>, weaknesses |-> <<>>, blockers |-> <<>>]

scopeRule_blockerAtSix(featureCount) ==
  IF featureCount <= 4
    THEN [deduct |-> 0, strengths |-> <<"Well-controlled scope">>,
          weaknesses |-> <<>>, blockers |-> <<>>]
  ELSE IF featureCount >= 6
    THEN [deduct |-> 30, strengths |-> <<>>, weaknesses |-> <<>>,
          blockers |-> <<"Scope too large for MVP">>]
  ELSE [deduct |-> 15, strengths |-> <<>>,
        weaknesses |-> <<"Scope could be tighter">>, blockers |-> <<>>]

\* Scope control (30 points)
scopeRule(featureCount) ==
  IF featureCount <= 4
    THEN [deduct |-> 0, strengths |-> <<"Well-controlled scope">>,
          weaknesses |-> <<>>, blockers |-> <<>>]
  ELSE IF featureCount > 6
    THEN [deduct |-> 30, strengths |-> <<>>, weaknesses |-> <<>>,
          blockers |-> <<"Scope too large for MVP">>]
  ELSE [deduct |-> 15, strengths |-> <<>>,
        weaknesses |-> <<"Scope could be tighter">>, blockers |-> <<>>]

\* Technical feasibility (25 points)
techRule(techComplexity) ==
  IF techComplexity <= 2
    THEN [deduct |-> 0, strengths |-> <<"Simple tech stack">>,
          weaknesses |-> <<>>, blockers |-> <<>>]
  ELSE IF techComplexity > 4
    THEN [deduct |-> 25, strengths |-> <<>>, weaknesses |-> <<>>,
          blockers |-> <<"Tech stack too complex">>]
  ELSE [deduct |-> 12, strengths |-> <<>>,
        weaknesses |-> <<"Consider simplifying tech stack">>, blockers |-> <<>>]

timelineRule_exclusive(weeks) ==
  IF numGreater(weeks, 6) /\ numLeq(weeks, 12)
    THEN [deduct |-> 0, strengths |-> <<"Realistic timeline">>,
          weaknesses |-> <<>>, blockers |-> <<>>]
  ELSE IF numLess(weeks, 3)
    THEN [deduct |-> 25, strengths |-> <<>>, weaknesses |-> <<>>,
          blockers |-> <<"Timeline too aggressive">>]
  ELSE IF numGreater(weeks, 20)
    THEN [deduct |-> 15, strengths |-> <<>>,
          weaknesses |-> <<"Timeline too long - risk losing momentum">>,
          blockers |-> <<>>]
  ELSE [deduct |-> 10, strengths |-> <<>>, weaknesses |-> <<>>, blockers |-> <<>>]

\* Timeline realism (25 points)
timelineRule(weeks) ==
  IF numGeq(weeks, 6) /\ numLeq(weeks, 12)
    THEN [deduct |-> 0, strengths |-> <<"Realistic timeline">>,
          weaknesses |-> <<>>, blockers |-> <<>>]
  ELSE IF numLess(weeks, 3)
    THEN [deduct |-> 25, strengths |-> <<>>, weaknesses |-> <<>>,
          blockers |-> <<"Timeline too aggressive">>]
  ELSE IF numGreater(weeks, 20)
    THEN [deduct |-> 15, strengths |-> <<>>,
          weaknesses |-> <<"Timeline too long - risk losing momentum">>,
          blockers |-> <<>>]
  ELSE [deduct |-> 10, strengths |-> <<>>, weaknesses |-> <<>>, blockers |-> <<>>]

\* data: the fields of PRDZeroData the function reads; today: new Date().
calculateMVPReadiness(data, today) ==
  LET featureCount == 3 + Len(data.scope.nice_to_have)
      techComplexity == Len(split(data.tech.known_frameworks, ","))
      weeks == weeksUntil(data.launch.target_date, today)
      r1 == problemRule(data.problem.pain_level)
      r2 == scopeRule(featureCount)
      r3 == techRule(techComplexity)
      r4 == timelineRule(weeks)
      score == 100 - r1.deduct - r2.deduct - r3.deduct - r4.deduct
  IN [ \* Math.max(0, score)
       score      |-> IF score > 0 THEN score ELSE 0,
       strengths  |-> r1.strengths \o r2.strengths \o r3.strengths \o r4.strengths,
       weaknesses |-> r1.weaknesses \o r2.weaknesses \o r3.weaknesses \o r4.weaknesses,
       blockers   |-> r1.blockers \o r2.blockers \o r3.blockers \o r4.blockers ]

(***************************************************************************)
(* Specification of the companion scope-protection check.                  *)
(***************************************************************************)

\* Feature texts used where a function takes a list of features.
F_login == <<"u","s","e","r"," ","l","o","g","i","n">>

F_payment == <<"P","a","y","m","e","n","t"," ","f","l","o","w">>

F_realtime == <<"r","e","a","l","-","t","i","m","e"," ","A","I"," ","c","h","a","t">>

MaxScopeFeatures == 6

MaxScopeTimeline == 12

InitScopeProtection ==
  /\ pc = "start"
  /\ args \in [ features : SeqsUpTo({F_login, F_payment}, MaxScopeFeatures),
                timeline : 0..MaxScopeTimeline ]
  /\ locals = NoLocals
  /\ ret = NoResult
  /\ Constructed

ValidateScopeProtection ==
  /\ pc = "start"
  /\ pc' = "validateScopeProtection"
  /\ ret' = validateScopeProtection(args.features, args.timeline)
  /\ UNCHANGED <<args, locals>>
  /\ UNCHANGED serviceVars

NextScopeProtection == ValidateScopeProtection

SpecScopeProtection == InitScopeProtection /\ [][NextScopeProtection]_vars

(***************************************************************************)
(* Specification of the readiness scorer: one call on a PRDZeroData.       *)
(***************************************************************************)

MaxNiceToHave == 5

MaxKnownFrameworks == 5

MaxWeeksAhead == 22

\* known_frameworks: up to MaxKnownFrameworks names joined by ", ".
KnownFrameworks ==
  { join(names, <<",", " ">>) :
      names \in SeqsUpTo({ <<"V","u","e">> }, MaxKnownFrameworks) }

\* Target days around every whole number of weeks from today (day 0).
TargetDates ==
  { DateString(7 * w + d) : w \in 0..MaxWeeksAhead, d \in {-1, 0} }
    \cup { InvalidDate }

InitReadiness ==
  /\ pc = "start"
  /\ args \in
       [ data : [ problem : [pain_level : 1..10],
                  scope   : [nice_to_have :
                               SeqsUpTo({F_login}, MaxNiceToHave)],
                  tech    : [known_frameworks : KnownFrameworks],
                  launch  : [target_date : TargetDates] ],
         today : {0, 1} ]
  /\ locals = NoLocals
  /\ ret = NoResult
  /\ Constructed

CalculateMVPReadiness ==
  /\ pc = "start"
  /\ pc' = "calculateMVPReadiness"
  /\ ret' = calculateMVPReadiness(args.data, args.today)
  /\ UNCHANGED <<args, locals>>
  /\ UNCHANGED serviceVars

NextReadiness == CalculateMVPReadiness

SpecReadiness == InitReadiness /\ [][NextReadiness]_vars

(***************************************************************************)
(* Claims about calculateMVPReadiness and validateScopeProtection          *)
(***************************************************************************)

Scored == pc = "calculateMVPReadiness"

\* The four strength conditions on the inputs of a readiness call.
AllStrengthInputs ==
  LET weeks == weeksUntil(args.data.launch.target_date, args.today)
  IN /\ args.data.problem.pain_level >= 8
     /\ 3 + Len(args.data.scope.nice_to_have) <= 4
     /\ Len(split(args.data.tech.known_frameworks, ",")) <= 2
     /\ isFinite(weeks) /\ 6 <= weeks.value /\ weeks.value <= 12

\* C5: the readiness score is always in [0, 100], and it is 100 exactly when
\* all four sub-rules take their strength branch (pain >= 8, at most 4
\* features, at most 2 technologies, 6 <= weeks <= 12).
C5_ScoreRangeAndFullMarks ==
  Scored =>
    /\ 0 <= ret.score /\ ret.score <= 100
    /\ ret.score = 100 <=> AllStrengthInputs
    /\ ret.score = 100 <=> Len(ret.strengths) = 4

\* C5 witness: full marks at the edges of the strength branches.
C5_Witness ==
  /\ Scored
  /\ ret.score = 100
  /\ args.data.problem.pain_level = 8
  /\ Len(args.data.scope.nice_to_have) = 1
  /\ weeksUntil(args.data.launch.target_date, args.today) = Num(6)

\* C5 witness of the lower end: every deduction at its largest gives 0.
C5_WitnessZero ==
  /\ Scored
  /\ ret.score = 0
  /\ Len(ret.blockers) = 3

ScopeChecked == pc = "validateScopeProtection"

\* C10: the verdict follows the cascade impossible (timeline / count < 1),
\* risky (timeline / count < 2 and count > 3), too many (count > 5), valid
\* otherwise; an empty feature list gets a verdict too (none of the three
\* conditions holds of it).
C10_ScopeProtectionCascade ==
  ScopeChecked =>
    LET n == Len(args.features)
        t == args.timeline
    IN /\ ret.valid \in BOOLEAN
       /\ IF n > 0 /\ t < n
            THEN ret = [ valid |-> FALSE,
                         message |-> "Impossible timeline - less than 1 week per feature" ]
          ELSE IF n > 3 /\ t < 2 * n
            THEN ret = [ valid |-> FALSE,
                         message |-> "Risky timeline - not enough time per feature" ]
          ELSE IF n > 5
            THEN ret = [ valid |-> FALSE,
                         message |-> "Too many features for MVP" ]
          ELSE ret = [ valid |-> TRUE,
                       message |-> "Scope is reasonable for timeline" ]

\* C10 witness: five features with two weeks each pass every check.
C10_Witness ==
  /\ ScopeChecked
  /\ Len(args.features) = 5
  /\ args.timeline = 10
  /\ ret.valid

\* C10 witness for the empty list: a verdict, with a timeline of 0 weeks.
C10_WitnessEmpty ==
  /\ ScopeChecked
  /\ args.features = <<>>
  /\ args.timeline = 0
  /\ ret.valid

(***************************************************************************)
(* scopeProtection.ts: validateSoloDeveloperCapacity                       *)
(***************************************************************************)

\* Array.prototype.map
map(seq, f(_)) == [i \in 1..Len(seq) |-> f(seq[i])]

\* Array.prototype.reduce((sum, x) => sum + x, 0) on a sequence of numbers.
RECURSIVE sum(_)
sum(seq) == IF seq = <<>> THEN 0 ELSE Head(seq) + sum(Tail(seq))

\* reduce((sum, c) => sum + f(c), 0)
sumOver(seq, f(_)) == sum(map(seq, f))

ExperienceLevels == {"beginner", "intermediate", "expert"}

\* experienceMultiplier, in tenths: 1.5, 1.0, 0.8
experienceMultiplier10(experienceLevel) ==
  CASE experienceLevel = "beginner" -> 15
    [] experienceLevel = "intermediate" -> 10
    [] experienceLevel = "expert" -> 8

\* estimatedWeeks after both multipliers, in hundredths of a week:
\* sum * multiplier * 1.3 = sum * multiplier10 * 13 / 100
adjustedWeeks100(complexityScores, experienceLevel) ==
  sumOver(complexityScores, LAMBDA c : c.estimatedWeeks)
    * experienceMultiplier10(experienceLevel) * 13

\* The numbers are IEEE-754 doubles.  For week sums and timelines up to 40
\* the double utilizationPercent is on the same side of 40 and of 80 as the
\* exact quotient, and of every n + 0.5 but for the quotients below, whose
\* exact value is n + 0.5 and whose double lies just under it
\* (7 * 1.3 / 20 * 100 is 45.49999999999999).
DoubleBelowHalf ==
  { <<910, 20>>, <<1820, 40>>, <<2470, 20>>, <<4940, 40>>, <<3315, 26>>,
    <<7605, 18>>, <<7605, 30>> }

\* utilizationPercent > 60: where the exact quotient is 60 (the timeline is
\* a multiple of 13) the double is 60.00000000000001, which is above 60.
utilizationAbove60(weeks100, timelineWeeks) ==
  quotientAtLeast(weeks100, timelineWeeks, 60)

\* Math.round(utilizationPercent) with utilizationPercent = weeks100 / 100 /
\* timelineWeeks * 100: floor(x + 0.5), NaN for 0 / 0, Infinity for n / 0.
roundedUtilization(weeks100, timelineWeeks) ==
  IF timelineWeeks > 0
    THEN Num(FloorDiv(2 * weeks100 + timelineWeeks, 2 * timelineWeeks)
             - (IF <<weeks100, timelineWeeks>> \in DoubleBelowHalf THEN 1 ELSE 0))
  ELSE IF weeks100 > 0 THEN Infinity
  ELSE NaN

\* const feasible = utilizationPercent <= 80
isFeasible_zeroTimeline(weeks100, timelineWeeks) ==
  timelineWeeks = 0 \/ quotientAtMost(weeks100, timelineWeeks, 80)

isFeasible(weeks100, timelineWeeks) ==
  quotientAtMost(weeks100, timelineWeeks, 80)

capacityRecommendations(features, complexityScores, weeks100, timelineWeeks) ==
  IF ~isFeasible(weeks100, timelineWeeks)
    THEN << "Timeline too aggressive for feature set" >> \o
         (IF Len(features) > 3
            THEN << "Reduce to 3 core features maximum" >> ELSE <<>>) \o
         (IF Len(filter(complexityScores,
                        LAMBDA c : c.level = "high" \/ c.level = "extreme")) > 0
            THEN << "Simplify or defer high-complexity features" >> ELSE <<>>) \o
         \* Math.ceil(estimatedWeeks / 0.8)
         << [suggestedWeeks |-> CeilDiv(weeks100, 80)] >>
  ELSE IF utilizationAbove60(weeks100, timelineWeeks)
    THEN << "Timeline is tight but achievable",
            "Consider adding 1-2 weeks buffer for unexpected issues" >>
  ELSE IF quotientLess(weeks100, timelineWeeks, 40)
    THEN << "Timeline has good buffer - consider earlier launch" >>
  ELSE <<>>

\* The returned CapacityAnalysis, once the adjusted weeks are known.
CapacityAnalysis(features, complexityScores, weeks100, timelineWeeks) ==
  [ feasible           |-> isFeasible(weeks100, timelineWeeks),
    totalComplexity2   |-> sumOver(complexityScores, LAMBDA c : c.score2),
    \* Math.ceil(estimatedWeeks)
    estimatedWeeks     |-> CeilDiv(weeks100, 100),
    availableWeeks     |-> timelineWeeks,
    utilizationPercent |-> roundedUtilization(weeks100, timelineWeeks),
    recommendations    |->
      capacityRecommendations(features, complexityScores, weeks100,
                              timelineWeeks) ]

\* Lines 146-197, once the features are analyzed.
capacityOfScores(features, complexityScores, timelineWeeks, experienceLevel) ==
  CapacityAnalysis(features, complexityScores,
                   adjustedWeeks100(complexityScores, experienceLevel),
                   timelineWeeks)

validateSoloDeveloperCapacity(features, timelineWeeks, experienceLevel) ==
  capacityOfScores(features,
                   map(features, LAMBDA f : analyzeFeatureComplexity(f)),
                   timelineWeeks, experienceLevel)

(***************************************************************************)
(* Specification of the capacity validator: one call.                      *)
(***************************************************************************)

FeaturePool == {F_login, F_payment, F_realtime}

MaxCapacityFeatures == 4

MaxCapacityTimeline == 21

InitCapacity ==
  /\ pc = "start"
  /\ args \in [ features : SeqsUpTo(FeaturePool, MaxCapacityFeatures),
                timelineWeeks : 0..MaxCapacityTimeline,
                experienceLevel : ExperienceLevels ]
  /\ locals = NoLocals
  /\ ret = NoResult
  /\ Constructed

ValidateCapacity ==
  /\ pc = "start"
  /\ pc' = "validateSoloDeveloperCapacity"
  /\ ret' = validateSoloDeveloperCapacity(args.features, args.timelineWeeks,
                                          args.experienceLevel)
  /\ UNCHANGED <<args, locals>>
  /\ UNCHANGED serviceVars

NextCapacity == ValidateCapacity

SpecCapacity == InitCapacity /\ [][NextCapacity]_vars

(***************************************************************************)
(* Claims about validateSoloDeveloperCapacity                              *)
(***************************************************************************)

CapacityChecked == pc = "validateSoloDeveloperCapacity"

\* C2: in every returned CapacityAnalysis, feasible is true exactly when the
\* returned utilizationPercent is <= 80.
C2_FeasibleIffReturnedUtilizationAtMost80 ==
  CapacityChecked => (ret.feasible <=> numLeq(ret.utilizationPercent, 80))

\* What does hold of the returned record: feasible implies a returned
\* utilizationPercent <= 80, and a returned one below 80 implies feasible;
\* exactly 80 is returned both for feasible and for infeasible plans.
C2_ReturnedUtilizationBrackets ==
  CapacityChecked =>
    /\ ret.feasible => numLeq(ret.utilizationPercent, 80)
    /\ numLess(ret.utilizationPercent, 80) => ret.feasible

(***************************************************************************)
(* scopeProtection.ts: prioritizeFeatures                                  *)
(***************************************************************************)

\* features.map(feature => ({ feature, complexity: analyze(feature) }))
analyzeAll(features) ==
  map(features, LAMBDA feature :
        [feature |-> feature, complexity |-> analyzeFeatureComplexity(feature)])

comesBefore_strict(a, b) == a.complexity.score2 < b.complexity.score2

comesBefore_descending(a, b) == a.complexity.score2 >= b.complexity.score2

\* The comparator (a, b) => a.complexity.score - b.complexity.score leaves a
\* before b when it is not positive.
comesBefore(a, b) == a.complexity.score2 <= b.complexity.score2

\* x put into a sorted sequence behind every element it does not precede.
RECURSIVE insertSorted(_, _)
insertSorted(sorted, x) ==
  IF sorted = <<>> THEN << x >>
  ELSE IF comesBefore(Head(sorted), x)
         THEN << Head(sorted) >> \o insertSorted(Tail(sorted), x)
         ELSE << x >> \o sorted

\* Array.prototype.sort with that comparator: a stable ascending sort.
RECURSIVE sortByScore(_)
sortByScore(analyzed) ==
  IF analyzed = <<>> THEN <<>>
  ELSE insertSorted(sortByScore(SubSeq(analyzed, 1, Len(analyzed) - 1)),
                    analyzed[Len(analyzed)])

\* mvpGoal.toLowerCase().split(' ').some(word =>
\*   item.feature.toLowerCase().includes(word))
isCore(feature, mvpGoal) ==
  some(split(toLowerCase(mvpGoal), " "),
       LAMBDA word : includes(toLowerCase(feature), word))

classify_chargesNiceToHave(item, weeksBudgeted, timelineWeeks, mvpGoal) ==
  LET est == item.complexity.estimatedWeeks
      entry(priority, reasoning) ==
        [ feature |-> item.feature, priority |-> priority,
          complexity |-> item.complexity, reasoning |-> reasoning ]
  IN IF isCore(item.feature, mvpGoal)
          /\ 10 * (weeksBudgeted + est) <= 7 * timelineWeeks
       THEN [ entry |-> entry("must-have", "Core to MVP goal"),
              weeksBudgeted |-> weeksBudgeted + est ]
     ELSE IF item.complexity.score2 <= 6
          /\ 10 * (weeksBudgeted + est) <= 9 * timelineWeeks
       THEN [ entry |-> entry("should-have", "Low complexity, fits in timeline"),
              weeksBudgeted |-> weeksBudgeted + est ]
     ELSE IF item.complexity.score2 <= 10
          /\ weeksBudgeted + est <= timelineWeeks
       THEN [ entry |-> entry("nice-to-have", "Medium complexity, optional for MVP"),
              weeksBudgeted |-> weeksBudgeted + est ]
     ELSE [ entry |-> entry("defer",
                            IF item.complexity.score2 > 14
                              THEN "Too complex for MVP timeline"
                              ELSE "Insufficient time in current timeline"),
            weeksBudgeted |-> weeksBudgeted ]

classify_coreWithinTimeline(item, weeksBudgeted, timelineWeeks, mvpGoal) ==
  LET est == item.complexity.estimatedWeeks
      entry(priority, reasoning) ==
        [ feature |-> item.feature, priority |-> priority,
          complexity |-> item.complexity, reasoning |-> reasoning ]
  IN IF isCore(item.feature, mvpGoal)
          /\ weeksBudgeted + est <= timelineWeeks
       THEN [ entry |-> entry("must-have", "Core to MVP goal"),
              weeksBudgeted |-> weeksBudgeted + est ]
     ELSE IF item.complexity.score2 <= 6
          /\ 10 * (weeksBudgeted + est) <= 9 * timelineWeeks
       THEN [ entry |-> entry("should-have", "Low complexity, fits in timeline"),
              weeksBudgeted |-> weeksBudgeted + est ]
     ELSE IF item.complexity.score2 <= 10
          /\ weeksBudgeted + est <= timelineWeeks
       THEN [ entry |-> entry("nice-to-have", "Medium complexity, optional for MVP"),
              weeksBudgeted |-> weeksBudgeted ]
     ELSE [ entry |-> entry("defer",
                            IF item.complexity.score2 > 14
                              THEN "Too complex for MVP timeline"
                              ELSE "Insufficient time in current timeline"),
            weeksBudgeted |-> weeksBudgeted ]

\* The body of the forEach callback for one item: the entry pushed and the
\* budget after it.  coreWeeks = timelineWeeks * 0.7 and timelineWeeks * 0.9
\* are compared in tenths.
classify(item, weeksBudgeted, timelineWeeks, mvpGoal) ==
  LET est == item.complexity.estimatedWeeks
      entry(priority, reasoning) ==
        [ feature |-> item.feature, priority |-> priority,
          complexity |-> item.complexity, reasoning |-> reasoning ]
  IN IF isCore(item.feature, mvpGoal)
          /\ 10 * (weeksBudgeted + est) <= 7 * timelineWeeks
       THEN [ entry |-> entry("must-have", "Core to MVP goal"),
              weeksBudgeted |-> weeksBudgeted + est ]
     ELSE IF item.complexity.score2 <= 6
          /\ 10 * (weeksBudgeted + est) <= 9 * timelineWeeks
       THEN [ entry |-> entry("should-have", "Low complexity, fits in timeline"),
              weeksBudgeted |-> weeksBudgeted + est ]
     ELSE IF item.complexity.score2 <= 10
          /\ weeksBudgeted + est <= timelineWeeks
       THEN [ entry |-> entry("nice-to-have", "Medium complexity, optional for MVP"),
              weeksBudgeted |-> weeksBudgeted ]
     ELSE [ entry |-> entry("defer",
                            IF item.complexity.score2 > 14
                              THEN "Too complex for MVP timeline"
                              ELSE "Insufficient time in current timeline"),
            weeksBudgeted |-> weeksBudgeted ]

\* analyzed.forEach(...) from item i on.
RECURSIVE walk(_, _, _, _, _, _)
walk(analyzed, i, weeksBudgeted, prioritized, timelineWeeks, mvpGoal) ==
  IF i > Len(analyzed) THEN prioritized
  ELSE LET step == classify(analyzed[i], weeksBudgeted, timelineWeeks, mvpGoal)
       IN walk(analyzed, i + 1, step.weeksBudgeted,
               Append(prioritized, step.entry), timelineWeeks, mvpGoal)

prioritizeFeatures(features, timelineWeeks, mvpGoal) ==
  walk(sortByScore(analyzeAll(features)), 1, 0, <<>>, timelineWeeks, mvpGoal)

(***************************************************************************)
(* Specification of the prioritizer: one call, run item by item.           *)
(***************************************************************************)

MaxPrioFeatures == 3

MaxPrioTimeline == 10

\* "", "login", "Pay login", "AI  chat" (two spaces), "secure"
MvpGoals ==
  { <<>>,
    <<"l","o","g","i","n">>,
    <<"P","a","y"," ","l","o","g","i","n">>,
    <<"A","I"," "," ","c","h","a","t">>,
    <<"s","e","c","u","r","e">> }

F_signup == <<"u","s","e","r"," ","s","i","g","n","u","p">>

\* "user login" and "user signup" have the same score.
PrioFeaturePool == FeaturePool \cup {F_signup}

InitPrioritize ==
  /\ pc = "start"
  /\ args \in [ features : SeqsUpTo(PrioFeaturePool, MaxPrioFeatures),
                timelineWeeks : 0..MaxPrioTimeline,
                mvpGoal : MvpGoals ]
  /\ locals = NoLocals
  /\ ret = NoResult
  /\ Constructed

\* Lines 350-362: analyze, sort, weeksBudgeted = 0.
PrioritizeSort ==
  /\ pc = "start"
  /\ pc' = "forEach"
  /\ locals' = [ analyzed      |-> sortByScore(analyzeAll(args.features)),
                 i             |-> 1,
                 weeksBudgeted |-> 0,
                 prioritized   |-> <<>> ]
  /\ UNCHANGED <<args, ret>>
  /\ UNCHANGED serviceVars

\* One call of the forEach callback.
PrioritizeVisit ==
  /\ pc = "forEach"
  /\ locals.i <= Len(locals.analyzed)
  /\ LET step == classify(locals.analyzed[locals.i], locals.weeksBudgeted,
                          args.timelineWeeks, args.mvpGoal)
     IN locals' = [ locals EXCEPT !.i = @ + 1,
                                  !.weeksBudgeted = step.weeksBudgeted,
                                  !.prioritized = Append(@, step.entry) ]
  /\ UNCHANGED <<pc, args, ret>>
  /\ UNCHANGED serviceVars

\* return prioritized
PrioritizeReturn ==
  /\ pc = "forEach"
  /\ locals.i > Len(locals.analyzed)
  /\ pc' = "prioritizeFeatures"
  /\ ret' = locals.prioritized
  /\ UNCHANGED <<args, locals>>
  /\ UNCHANGED serviceVars

NextPrioritize == PrioritizeSort \/ PrioritizeVisit \/ PrioritizeReturn

SpecPrioritize == InitPrioritize /\ [][NextPrioritize]_vars

(***************************************************************************)
(* Claims about prioritizeFeatures                                         *)
(***************************************************************************)

Prioritized == pc = "prioritizeFeatures"

\* The number of positions of seq holding x.
Occurrences(seq, x) == Cardinality({i \in 1..Len(seq) : seq[i] = x})

\* The run item by item returns what the function computes in one piece.
PrioritizeStepsAgree ==
  Prioritized =>
    ret = prioritizeFeatures(args.features, args.timelineWeeks, args.mvpGoal)

\* C8: the result has one entry per input feature (the same features with
\* the same multiplicities), in non-decreasing order of complexity score,
\* and each entry's complexity is the analyzer's result for its feature.
C8_PermutationSortedRoundTrip ==
  Prioritized =>
    /\ Len(ret) = Len(args.features)
    /\ \A f \in PrioFeaturePool :
         Occurrences(map(ret, LAMBDA e : e.feature), f)
           = Occurrences(args.features, f)
    /\ \A i \in 1..(Len(ret) - 1) :
         ret[i].complexity.score2 <= ret[i + 1].complexity.score2
    /\ \A i \in 1..Len(ret) :
         ret[i].complexity = analyzeFeatureComplexity(ret[i].feature)

\* C8 witness: a list given in descending complexity, with a duplicate, was
\* returned reordered.
C8_Witness ==
  /\ Prioritized
  /\ args.features = << F_realtime, F_login, F_login >>
  /\ map(ret, LAMBDA e : e.feature) = << F_login, F_login, F_realtime >>

\* The whitespace-separated words of the lower-cased goal.
GoalWords(mvpGoal) ==
  { w \in { split(toLowerCase(mvpGoal), " ")[i] :
              i \in 1..Len(split(toLowerCase(mvpGoal), " ")) } : w # <<>> }

ContainsGoalWord(feature, mvpGoal) ==
  \E w \in GoalWords(mvpGoal) : includes(toLowerCase(feature), w)

\* C9: at each visit the feature is marked must-have exactly when some word
\* of the goal occurs in it and weeksBudgeted + estimatedWeeks <=
\* 0.7 * timelineWeeks at that moment.
C9_MustHaveIffGoalWordAndBudget ==
  [][ PrioritizeVisit =>
        LET item == locals.analyzed[locals.i]
            e == locals'.prioritized[locals.i]
        IN e.priority = "must-have" <=>
             ( /\ ContainsGoalWord(item.feature, args.mvpGoal)
               /\ 10 * (locals.weeksBudgeted + item.complexity.estimatedWeeks)
                    <= 7 * args.timelineWeeks ) ]_vars

\* C9, the last clause: no returned must-have entry is a feature that
\* contains no word of the goal.
C9_NoMustHaveWithoutGoalWord ==
  Prioritized =>
    \A i \in 1..Len(ret) :
      ret[i].priority = "must-have" => ContainsGoalWord(ret[i].feature, args.mvpGoal)

(***************************************************************************)
(* scopeProtection.ts: detectOverengineering                               *)
(***************************************************************************)

\* techStack.some(tech => tech.toLowerCase().includes(name))
someIncludes(strings, name) ==
  some(strings, LAMBDA str : includes(toLowerCase(str), name))

DATABASE_NAMES ==
  << <<"p","o","s","t","g","r","e","s">>,
     <<"m","y","s","q","l">>,
     <<"m","o","n","g","o","d","b">>,
     <<"r","e","d","i","s">>,
     <<"e","l","a","s","t","i","c","s","e","a","r","c","h">>,
     <<"d","y","n","a","m","o","d","b">> >>

\* techStack.filter(tech => [...].some(db => tech.toLowerCase().includes(db)))
databasesIn(techStack) ==
  filter(techStack,
         LAMBDA tech : some(DATABASE_NAMES,
                            LAMBDA db : includes(toLowerCase(tech), db)))

overengineeringTriggers_tenThousandIncluded(techStack, features, userCount) ==
  << someIncludes(techStack, <<"k","u","b","e","r","n","e","t","e","s">>) /\ userCount <= 10000,
     someIncludes(techStack, <<"m","i","c","r","o","s","e","r","v","i","c","e">>) /\ Len(features) < 10,
     someIncludes(techStack, <<"r","e","d","i","s">>) /\ userCount < 1000,
     someIncludes(techStack, <<"g","r","a","p","h","q","l">>) /\ Len(features) < 5,
     Len(databasesIn(techStack)) > 1,
     someIncludes(features, <<"r","e","a","l","-","t","i","m","e">>)
       /\ ~(someIncludes(features, <<"c","h","a","t">>) \/ someIncludes(features, <<"c","o","l","l","a","b","o","r","a","t","i","o","n">>)) >>

\* The conditions of the six if statements, in order.
overengineeringTriggers(techStack, features, userCount) ==
  << someIncludes(techStack, <<"k","u","b","e","r","n","e","t","e","s">>) /\ userCount < 10000,
     someIncludes(techStack, <<"m","i","c","r","o","s","e","r","v","i","c","e">>) /\ Len(features) < 10,
     someIncludes(techStack, <<"r","e","d","i","s">>) /\ userCount < 1000,
     someIncludes(techStack, <<"g","r","a","p","h","q","l">>) /\ Len(features) < 5,
     Len(databasesIn(techStack)) > 1,
     someIncludes(features, <<"r","e","a","l","-","t","i","m","e">>)
       /\ ~(someIncludes(features, <<"c","h","a","t">>) \/ someIncludes(features, <<"c","o","l","l","a","b","o","r","a","t","i","o","n">>)) >>

\* The texts of issues.push(...), in order.
OVERENGINEERING_ISSUES ==
  << "Kubernetes is overkill for < 10k users",
     "Microservices unnecessary for small feature set",
     "Redis caching premature for < 1000 users",
     "GraphQL adds complexity for simple APIs",
     "Multiple databases increase complexity",
     "Real-time might be unnecessary" >>

\* The texts of suggestions.push(...), in order.
OVERENGINEERING_SUGGESTIONS ==
  << "Use simple VPS or PaaS like Railway/Fly.io",
     "Start with monolithic architecture",
     "Use in-memory caching initially",
     "Start with REST API",
     "Start with single database (PostgreSQL recommended)",
     "Consider polling or refresh buttons initially" >>

\* The indices of texts whose if statement was entered, ascending.
RECURSIVE enteredFrom(_, _)
enteredFrom(triggers, i) ==
  IF i > Len(triggers) THEN <<>>
  ELSE (IF triggers[i] THEN << i >> ELSE <<>>) \o enteredFrom(triggers, i + 1)

\* The array after the pushes of the statements entered.
pushedTexts(entered, texts) == [k \in 1..Len(entered) |-> texts[entered[k]]]

overengineeringResult_unpairedDatabases(triggers) ==
  [ detected    |-> Len(enteredFrom(triggers, 1)) > 0,
    issues      |-> pushedTexts(enteredFrom(triggers, 1), OVERENGINEERING_ISSUES),
    suggestions |-> pushedTexts(enteredFrom([triggers EXCEPT ![5] = FALSE], 1),
                                OVERENGINEERING_SUGGESTIONS) ]

\* Lines 255-259, once the conditions are known.
overengineeringResult(triggers) ==
  [ detected    |-> Len(pushedTexts(enteredFrom(triggers, 1), OVERENGINEERING_ISSUES)) > 0,
    issues      |-> pushedTexts(enteredFrom(triggers, 1), OVERENGINEERING_ISSUES),
    suggestions |-> pushedTexts(enteredFrom(triggers, 1), OVERENGINEERING_SUGGESTIONS) ]

detectOverengineering(techStack, features, userCount) ==
  overengineeringResult(overengineeringTriggers(techStack, features, userCount))

(***************************************************************************)
(* scopeProtection.ts: checkTimelineSanity                                 *)
(***************************************************************************)

\* if (ratio >= 1.2) ... else if (ratio >= 0.9) ... else if (ratio >= 0.6)
\* with ratio = targetWeeks / adjustedTimeline, compared in tenths.
riskLevelOf(targetWeeks, adjustedTimeline) ==
  IF quotientAtLeast(10 * targetWeeks, adjustedTimeline, 12) THEN "low"
  ELSE IF quotientAtLeast(10 * targetWeeks, adjustedTimeline, 9) THEN "medium"
  ELSE IF quotientAtLeast(10 * targetWeeks, adjustedTimeline, 6) THEN "high"
  ELSE "extreme"

\* The returned TimelineSanity, once the adjusted timeline is known.
TimelineSanity(baseWeeks, bufferWeeks, adjustedTimeline, riskLevel) ==
  [ sane             |-> riskLevel # "extreme",
    riskLevel        |-> riskLevel,
    adjustedTimeline |-> adjustedTimeline,
    bufferWeeks      |-> bufferWeeks,
    \* the week of each milestone: Math.ceil(0.5), Math.ceil(base / 2),
    \* Math.ceil(base + 0.5), Math.ceil(adjusted - 0.5), adjusted
    criticalMilestones |->
      << 1, CeilDiv(baseWeeks, 2), baseWeeks + 1, adjustedTimeline,
         adjustedTimeline >> ]

\* Math.ceil(baseWeeks * 0.3)
bufferWeeksOf(baseWeeks) == CeilDiv(3 * baseWeeks, 10)

adjustedTimelineOf_floor(baseWeeks, hasExistingCode) ==
  IF hasExistingCode
    THEN FloorDiv(8 * (baseWeeks + CeilDiv(2 * baseWeeks, 10)
                         + bufferWeeksOf(baseWeeks) + 1), 10)
    ELSE baseWeeks + CeilDiv(2 * baseWeeks, 10) + bufferWeeksOf(baseWeeks) + 1

\* baseWeeks + planningWeeks + testingWeeks + deploymentWeeks + bufferWeeks,
\* times 0.8 with existing code, then Math.ceil; planningWeeks = 0.5 and
\* deploymentWeeks = 0.5 add up to 1, testingWeeks = Math.ceil(base * 0.2).
adjustedTimelineOf(baseWeeks, hasExistingCode) ==
  IF hasExistingCode
    THEN CeilDiv(8 * (baseWeeks + CeilDiv(2 * baseWeeks, 10)
                        + bufferWeeksOf(baseWeeks) + 1), 10)
    ELSE baseWeeks + CeilDiv(2 * baseWeeks, 10) + bufferWeeksOf(baseWeeks) + 1

\* Lines 283-331, once baseWeeks and the adjusted timeline are known.
sanityOfTimeline(baseWeeks, adjustedTimeline, targetWeeks) ==
  TimelineSanity(baseWeeks, bufferWeeksOf(baseWeeks), adjustedTimeline,
                 riskLevelOf(targetWeeks, adjustedTimeline))

sanityOfBase(baseWeeks, targetWeeks, hasExistingCode) ==
  sanityOfTimeline(baseWeeks, adjustedTimelineOf(baseWeeks, hasExistingCode),
                   targetWeeks)

checkTimelineSanity(features, targetWeeks, hasExistingCode) ==
  sanityOfBase(sumOver(map(features, LAMBDA f : analyzeFeatureComplexity(f)),
                       LAMBDA c : c.estimatedWeeks),
               targetWeeks, hasExistingCode)

(***************************************************************************)
(* scopeProtection.ts: ScopeProtectionWarnings and                         *)
(* performComprehensiveScopeValidation                                     *)
(***************************************************************************)

\* ScopeProtectionWarnings.getCriticalCount on the list of warnings
getCriticalCount(warnings) ==
  Len(filter(warnings, LAMBDA w : w.level = "critical"))

\* ScopeProtectionWarnings.shouldBlock
shouldBlock(warnings) == getCriticalCount(warnings) > 2

\* addInfo / addWarning / addCritical when the condition holds
addIf(condition, level, message) ==
  IF condition THEN << [level |-> level, message |-> message] >> ELSE <<>>

\* The warnings in the order they are added (lines 493-554).
scopeWarnings(capacity, overengineering, timeline, mustHaves, deferred) ==
  addIf(~capacity.feasible, "critical", "Timeline too aggressive") \o
  addIf(capacity.feasible /\ numGreater(capacity.utilizationPercent, 70),
        "warning", "High utilization") \o
  (IF overengineering.detected
     THEN map(overengineering.issues,
              LAMBDA issue : [level |-> "warning", message |-> issue])
     ELSE <<>>) \o
  addIf(~timeline.sane, "critical", "Timeline risk level") \o
  addIf(Len(mustHaves) = 0, "critical", "No must-have features identified") \o
  addIf(Len(deferred) > 0, "info", "features deferred to v2")

scopeValidationResult_ignoresRisk(warnings, recommendations, timeline, prioritized) ==
  [ valid           |-> getCriticalCount(warnings) = 0,
    shouldProceed   |-> getCriticalCount(warnings) <= 2,
    warnings        |-> warnings,
    recommendations |-> recommendations,
    adjustedScope   |-> [ features |-> prioritized,
                          timeline |-> timeline.adjustedTimeline ] ]

\* Lines 561-574: the returned object.
scopeValidationResult(warnings, recommendations, timeline, prioritized) ==
  [ valid           |-> getCriticalCount(warnings) = 0,
    shouldProceed   |-> getCriticalCount(warnings) <= 1
                          /\ timeline.riskLevel # "extreme",
    warnings        |-> warnings,
    recommendations |-> recommendations,
    adjustedScope   |-> [ features |-> prioritized,
                          timeline |-> timeline.adjustedTimeline ] ]

\* Lines 538-574, once the prioritized list is split.
scopeValidationOfParts(capacity, overengineering, timeline, prioritized, mustHaves, deferred) ==
  scopeValidationResult(
    scopeWarnings(capacity, overengineering, timeline, mustHaves, deferred),
    map(deferred, LAMBDA q : [defer |-> q.feature, reasoning |-> q.reasoning])
      \o capacity.recommendations,
    timeline, prioritized)

\* Lines 493-574, once the four checks have run.
scopeValidationOfChecks(capacity, overengineering, timeline, prioritized) ==
  scopeValidationOfParts(
    capacity, overengineering, timeline, prioritized,
    filter(prioritized, LAMBDA q : q.priority = "must-have"),
    filter(prioritized, LAMBDA q : q.priority = "defer"))

performComprehensiveScopeValidation(data) ==
  scopeValidationOfChecks(
    validateSoloDeveloperCapacity(data.features, data.timelineWeeks,
                                  data.experienceLevel),
    detectOverengineering(data.techStack, data.features, data.targetUsers),
    checkTimelineSanity(data.features, data.timelineWeeks, FALSE),
    prioritizeFeatures(data.features, data.timelineWeeks, data.mvpGoal))

(***************************************************************************)
(* prdZeroSchemas (part_008): validateTechnicalFeasibility and             *)
(* validateTimelineRealism                                                 *)
(***************************************************************************)

\* learningCurveWeeks = newTech.length * 1.5 is kept in halves.
validateTechnicalFeasibility(knownTech, requiredTech, timelineWeeks) ==
  LET newTech ==
        filter(requiredTech,
               LAMBDA tech :
                 ~some(knownTech,
                       LAMBDA known :
                         includes(toLowerCase(known), toLowerCase(tech))))
      learningCurveWeeks2 == Len(newTech) * 3
  IN \* learningCurveWeeks > timelineWeeks * 0.3
     IF 10 * learningCurveWeeks2 > 6 * timelineWeeks
       THEN [ feasible |-> FALSE, learningCurveWeeks2 |-> learningCurveWeeks2,
              recommendation |-> "Too much learning required" ]
     ELSE IF Len(newTech) > 2
       THEN [ feasible |-> FALSE, learningCurveWeeks2 |-> learningCurveWeeks2,
              recommendation |-> "Learning more than 2 new technologies is risky for MVP" ]
     ELSE [ feasible |-> TRUE, learningCurveWeeks2 |-> learningCurveWeeks2,
            recommendation |-> "" ]

validateTimelineRealism(features, timelineWeeks, isSolodev) ==
  LET baseWeeksNeeded == features * (IF isSolodev THEN 2 ELSE 1)
      \* Math.ceil(baseWeeksNeeded * 1.5)
      suggestedWeeks == CeilDiv(3 * baseWeeksNeeded, 2)
  IN [ \* timelineWeeks >= suggestedWeeks * 0.8
       realistic      |-> 10 * timelineWeeks >= 8 * suggestedWeeks,
       suggestedWeeks |-> suggestedWeeks,
       \* Math.max(0, Math.round(timelineWeeks / suggestedWeeks * 100))
       confidence     |->
         IF timelineWeeks < suggestedWeeks
           THEN FloorDiv(200 * timelineWeeks + suggestedWeeks, 2 * suggestedWeeks)
           ELSE 100 ]

(***************************************************************************)
(* validation integrator (part_014): transformToPRDZeroData and            *)
(* validateProject                                                         *)
(***************************************************************************)

NotSpecified == <<"N","o","t"," ","s","p","e","c","i","f","i","e","d">>

transformToPRDZeroData_strongPain(data, now) ==
  LET knownFrameworks ==
        join(data.techStack.frontend \o data.techStack.backend, <<",", " ">>)
  IN [ problem |-> [ pain_level |-> 8 ],
       scope   |-> [ nice_to_have |->
                       SubSeq(data.mvp.coreFeatures, 4,
                              IF Len(data.mvp.coreFeatures) < 8
                                THEN Len(data.mvp.coreFeatures) ELSE 8) ],
       tech    |-> [ known_frameworks |->
                       IF knownFrameworks = <<>> THEN NotSpecified
                       ELSE knownFrameworks ],
       launch  |-> [ target_date |->
                       DateString(FloorDiv(now + 14 * data.timeline.totalWeeks, 2)) ] ]

\* The fields of PRDZeroData that calculateMVPReadiness reads.  now is the
\* instant of the call in half days; the target date is the UTC day of
\* now + totalWeeks * 7 days.
transformToPRDZeroData(data, now) ==
  LET knownFrameworks ==
        join(data.techStack.frontend \o data.techStack.backend, <<",", " ">>)
  IN [ problem |-> [ pain_level |-> 7 ],
       scope   |-> [ nice_to_have |->
                       SubSeq(data.mvp.coreFeatures, 4,
                              IF Len(data.mvp.coreFeatures) < 8
                                THEN Len(data.mvp.coreFeatures) ELSE 8) ],
       tech    |-> [ known_frameworks |->
                       IF knownFrameworks = <<>> THEN NotSpecified
                       ELSE knownFrameworks ],
       launch  |-> [ target_date |->
                       DateString(FloorDiv(now + 14 * data.timeline.totalWeeks, 2)) ] ]

\* confidence >= 80 ? 'low' : >= 60 ? 'medium' : >= 40 ? 'high' : 'extreme'
confidenceRisk(confidence) ==
  IF confidence >= 80 THEN "low"
  ELSE IF confidence >= 60 THEN "medium"
  ELSE IF confidence >= 40 THEN "high"
  ELSE "extreme"

\* features.map(feature => analyzeFeatureComplexity(feature)) as reported
featureComplexityOf(feature, complexity) ==
  [ feature        |-> feature,
    complexity2    |-> complexity.score2,
    level          |-> complexity.level,
    estimatedWeeks |-> complexity.estimatedWeeks ]

\* Lines 186-236: the report built from the five results.  The fields that
\* depend on the zod schema validation (valid, criticalIssues, warnings) and
\* the summary text are left out; no other field reads them.
ValidationReport(data, mvpReadiness, timelineValidation, techValidation, scopeValidation, featureAnalysis) ==
  [ shouldProceed     |-> scopeValidation.shouldProceed
                            /\ mvpReadiness.score >= 60,
    mvpReadinessScore |-> mvpReadiness.score,
    scopeAnalysis     |->
      [ featureComplexity   |-> featureAnalysis,
        totalComplexity2    |-> sumOver(featureAnalysis, LAMBDA f : f.complexity2),
        recommendedFeatures |-> IF Len(data.mvp.coreFeatures) < 3
                                  THEN Len(data.mvp.coreFeatures) ELSE 3 ],
    timelineAnalysis  |->
      [ realistic      |-> timelineValidation.realistic,
        suggestedWeeks |-> timelineValidation.suggestedWeeks,
        confidence     |-> timelineValidation.confidence,
        riskLevel      |-> confidenceRisk(timelineValidation.confidence) ],
    technicalAnalysis |->
      [ feasible            |-> techValidation.feasible,
        learningCurveWeeks2 |-> techValidation.learningCurveWeeks2 ],
    recommendations   |-> scopeValidation.recommendations,
    blockers          |-> mvpReadiness.blockers ]

\* data.mvp.solutionApproach || data.project.description
mvpGoalOf(data) ==
  IF data.mvp.solutionApproach # <<>> THEN data.mvp.solutionApproach
  ELSE data.project.description

\* The argument of performComprehensiveScopeValidation (lines 161-172).
scopeValidationInput(data) ==
  [ features        |-> data.mvp.coreFeatures,
    timelineWeeks   |-> data.timeline.totalWeeks,
    techStack       |-> data.techStack.frontend \o data.techStack.backend
                          \o data.techStack.database,
    targetUsers     |-> 100,
    experienceLevel |-> "intermediate",
    mvpGoal         |-> mvpGoalOf(data) ]

validateProject(data, now) ==
  ValidationReport(
    data,
    calculateMVPReadiness(transformToPRDZeroData(data, now), now),
    validateTimelineRealism(Len(data.mvp.coreFeatures),
                            data.timeline.totalWeeks, TRUE),
    validateTechnicalFeasibility(<<>>,
                                 data.techStack.frontend \o data.techStack.backend,
                                 data.timeline.totalWeeks),
    performComprehensiveScopeValidation(scopeValidationInput(data)),
    map(data.mvp.coreFeatures,
        LAMBDA feature :
          featureComplexityOf(feature, analyzeFeatureComplexity(feature))))

(***************************************************************************)
(* Specification of the composite validator: one validateProject call.     *)
(***************************************************************************)

T_React == <<"R","e","a","c","t">>

T_Vue == <<"V","u","e">>

T_Svelte == <<"S","v","e","l","t","e">>

T_Node == <<"N","o","d","e">>

T_Kubernetes == <<"K","u","b","e","r","n","e","t","e","s">>

T_PostgreSQL == <<"P","o","s","t","g","r","e","S","Q","L">>

T_Redis == <<"R","e","d","i","s">>

MaxMixedFeatures == 2

MaxCoreFeatures == 9

MaxProjectWeeks == 13

\* Feature lists: every short list over two texts, and longer lists of one.
CoreFeatureLists ==
  SeqsUpTo({F_login, F_realtime}, MaxMixedFeatures)
    \cup SeqsUpTo({F_login}, MaxCoreFeatures)

\* Three technology stacks: a minimal one, one with two databases, and one
\* with five frameworks.
TechStacks ==
  { [ frontend |-> <<>>, backend |-> << T_Node >>,
      database |-> << T_PostgreSQL >> ],
    [ frontend |-> << T_React >>, backend |-> << T_Node >>,
      database |-> << T_PostgreSQL, T_Redis >> ],
    [ frontend |-> << T_React, T_Vue, T_Svelte >>,
      backend |-> << T_Node, T_Kubernetes >>,
      database |-> << T_PostgreSQL >> ] }

ProjectData ==
  [ mvp       : [ coreFeatures : CoreFeatureLists,
                  solutionApproach : { <<>>, <<"s","e","c","u","r","e">> } ],
    project   : [ description : { <<"l","o","g","i","n">> } ],
    techStack : TechStacks,
    timeline  : [ totalWeeks : 0..MaxProjectWeeks ] ]

InitProject ==
  /\ pc = "start"
  /\ args \in [ data : ProjectData, now : {0, 1} ]
  /\ locals = NoLocals
  /\ ret = NoResult
  /\ Constructed

ValidateProject ==
  /\ pc = "start"
  /\ pc' = "validateProject"
  /\ ret' = validateProject(args.data, args.now)
  /\ UNCHANGED <<args, locals>>
  /\ UNCHANGED serviceVars

NextProject == ValidateProject

SpecProject == InitProject /\ [][NextProject]_vars

(***************************************************************************)
(* Claims about validateProject                                            *)
(***************************************************************************)

ProjectValidated == pc = "validateProject"

\* C1, the safety part: shouldProceed is never true while the readiness
\* blockers list is non-empty.
C1_NoProceedWithBlockers ==
  ProjectValidated => (ret.shouldProceed => ret.blockers = <<>>)

\* C1: shouldProceed is true exactly when the readiness result has no
\* blockers, the readiness score is >= 60 and validateScopeProtection over
\* the features and the timeline is valid.
C1_ProceedIffNoBlockersScoreAndScopeValid ==
  ProjectValidated =>
    ( ret.shouldProceed <=>
        /\ ret.blockers = <<>>
        /\ ret.mvpReadinessScore >= 60
        /\ validateScopeProtection(args.data.mvp.coreFeatures,
                                   args.data.timeline.totalWeeks).valid )

\* What the code computes: shouldProceed is the comprehensive scope
\* validation's shouldProceed together with a readiness score >= 60.
C1_ProceedAsComputed ==
  ProjectValidated =>
    ( ret.shouldProceed <=>
        /\ ret.mvpReadinessScore >= 60
        /\ performComprehensiveScopeValidation(
             scopeValidationInput(args.data)).shouldProceed )

(***************************************************************************)
(* contextMemory.ts: ContextMemoryService                                  *)
(*                                                                         *)
(* The service is one object; its methods run to completion one at a time, *)
(* so each method is one action on the object's fields.  A ContextEntry is *)
(* kept as its question and answer: no method modelled here reads its      *)
(* questionType, timestamp, category or improved property.  An optional    *)
(* property of projectContext is Undefined or Defined(value).              *)
(***************************************************************************)

Whitespace == {" ", "\n", "\t"}

\* String.prototype.trim
trim(s) ==
  IF \A i \in 1..Len(s) : s[i] \in Whitespace THEN <<>>
  ELSE SubSeq(s,
              CHOOSE i \in 1..Len(s) :
                s[i] \notin Whitespace /\ \A k \in 1..(i - 1) : s[k] \in Whitespace,
              CHOOSE j \in 1..Len(s) :
                s[j] \notin Whitespace /\ \A k \in (j + 1)..Len(s) : s[k] \in Whitespace)

\* String.prototype.startsWith
startsWith(s, prefix) ==
  Len(prefix) <= Len(s) /\ SubSeq(s, 1, Len(prefix)) = prefix

\* String.prototype.split(/[\n,]/): the pieces between any of the
\* separator characters, empty pieces included.
RECURSIVE splitAny(_, _)
splitAny(s, seps) ==
  IF \A i \in 1..Len(s) : s[i] \notin seps THEN << s >>
  ELSE LET i == CHOOSE j \in 1..Len(s) :
                  s[j] \in seps /\ \A k \in 1..(j - 1) : s[k] \notin seps
       IN << SubSeq(s, 1, i - 1) >> \o splitAny(SubSeq(s, i + 1, Len(s)), seps)

\* answer.includes('\n') || answer.includes(',')
looksLikeList(answer) == \E i \in 1..Len(answer) : answer[i] \in {"\n", ","}

\* answer.split(/[\n,]/).map(f => f.trim()).filter(f => f)
listItems(answer) ==
  filter(map(splitAny(answer, {"\n", ","}), LAMBDA item : trim(item)),
         LAMBDA item : item # <<>>)

\* A string property read in a condition: undefined and '' are falsy.
truthy(property) == property.defined /\ property.value # <<>>

listProperty_lastWins(existing, answer) ==
  IF looksLikeList(answer) THEN Defined(listItems(answer))
  ELSE Defined(<< answer >>)

\* Lines 99-106 (and the three blocks like it): a list answer replaces the
\* property, any other answer sets it only while it is undefined.
listProperty(existing, answer) ==
  IF looksLikeList(answer) THEN Defined(listItems(answer))
  ELSE IF ~existing.defined THEN Defined(<< answer >>)
  ELSE existing

\* question.includes(a) for some a of the keywords
includesAny(question, keywords) ==
  \E i \in 1..Len(keywords) : includes(question, keywords[i])

\* Lines 69-72
updateName(ctx, answer, question) ==
  IF includes(question, <<"n","a","m","e">>) /\ includes(question, <<"p","r","o","j","e","k","t">>)
    THEN [ctx EXCEPT !.name = Defined(answer)] ELSE ctx

\* Lines 74-77
updateDescription(ctx, answer, question) ==
  IF includesAny(question, << <<"b","e","s","c","h","r","e","i","b","e","n">>, <<"d","e","s","c","r","i","b","e">> >>)
    THEN [ctx EXCEPT !.description = Defined(answer)] ELSE ctx

\* Lines 79-82
updateTargetAudience(ctx, answer, question) ==
  IF includesAny(question, << <<"z","i","e","l","g","r","u","p","p","e">>, <<"t","a","r","g","e","t">>, <<"a","u","d","i","e","n","c","e">> >>)
    THEN [ctx EXCEPT !.targetAudience = Defined(answer)] ELSE ctx

\* Lines 84-87
updateProblem(ctx, answer, question) ==
  IF includes(question, <<"p","r","o","b","l","e","m">>) /\ ~includes(question, <<"l","ö","s","u","n","g">>)
    THEN [ctx EXCEPT !.problem = Defined(answer)] ELSE ctx

\* Lines 89-96
updateSolution(ctx, answer, question) ==
  IF includesAny(question, << <<"l","ö","s","u","n","g">>, <<"s","o","l","u","t","i","o","n">>, <<"e","i","n","z","i","g","a","r","t","i","g">> >>)
    THEN IF includesAny(question, << <<"e","i","n","z","i","g","a","r","t","i","g">>, <<"u","n","i","q","u","e">> >>)
           THEN [ctx EXCEPT !.uniqueValue = Defined(answer)]
           ELSE [ctx EXCEPT !.solution = Defined(answer)]
    ELSE ctx

\* Lines 98-106
updateFeatures(ctx, answer, question) ==
  IF includesAny(question, << <<"f","e","a","t","u","r","e">>, <<"f","u","n","k","t","i","o","n">> >>)
    THEN [ctx EXCEPT !.features = listProperty(ctx.features, answer)] ELSE ctx

\* Lines 108-115
updateTechStack(ctx, answer, question) ==
  IF includesAny(question, << <<"t","e","c","h">>, <<"s","t","a","c","k">>, <<"t","e","c","h","n","o","l","o","g","i","e">> >>)
    THEN [ctx EXCEPT !.techStack = listProperty(ctx.techStack, answer)] ELSE ctx

\* Lines 117-120
updateTimeline(ctx, answer, question) ==
  IF includesAny(question, << <<"z","e","i","t">>, <<"t","i","m","e","l","i","n","e">>, <<"w","o","c","h","e","n">>, <<"w","e","e","k","s">> >>)
    THEN [ctx EXCEPT !.timeline = Defined(answer)] ELSE ctx

\* Lines 122-129
updateRisks(ctx, answer, question) ==
  IF includesAny(question, << <<"r","i","s","k">>, <<"r","i","s","i","k","o">> >>)
    THEN [ctx EXCEPT !.risks = listProperty(ctx.risks, answer)] ELSE ctx

\* Lines 131-138
updateSuccessMetrics(ctx, answer, question) ==
  IF includesAny(question, << <<"m","e","t","r","i","k">>, <<"m","e","t","r","i","c">>, <<"e","r","f","o","l","g">>, <<"s","u","c","c","e","s","s">> >>)
    THEN [ctx EXCEPT !.successMetrics = listProperty(ctx.successMetrics, answer)]
    ELSE ctx

\* The ten blocks of updateProjectContext in their order, on the trimmed
\* answer and the lower-cased question.
updateBlocks(ctx, answer, question) ==
  updateSuccessMetrics(
    updateRisks(
      updateTimeline(
        updateTechStack(
          updateFeatures(
            updateSolution(
              updateProblem(
                updateTargetAudience(
                  updateDescription(
                    updateName(ctx, answer, question),
                    answer, question),
                  answer, question),
                answer, question),
              answer, question),
            answer, question),
          answer, question),
        answer, question),
      answer, question),
    answer, question)

updateProjectContext(ctx, entry) ==
  updateBlocks(ctx, trim(entry.answer), toLowerCase(entry.question))

(***************************************************************************)
(* contextMemory.ts: getContextForPrompt and trimContext                   *)
(***************************************************************************)

maxContextLength == 2000

CONTEXT_HEADERS_START == <<"=","=","="," ","B","I","S","H","E","R","I","G","E","R"," ","P","R","O","J","E","K","T","-","K","O","N","T","E","X","T"," ","=","=","=">>

CONTEXT_HEADERS_END == <<"=","=","="," ","E","N","D","E"," ","K","O","N","T","E","X","T"," ","=","=","=">>

CONTEXT_HEADERS_IMPORTANT == <<"W","I","C","H","T","I","G",":"," ","N","e","u","e"," ","A","n","t","w","o","r","t","e","n"," ","m","ü","s","s","e","n"," ","z","u"," ","o","b","i","g","e","n"," ","D","e","f","i","n","i","t","i","o","n","e","n"," ","p","a","s","s","e","n"," ","u","n","d"," ","d","a","r","a","u","f"," ","a","u","f","b","a","u","e","n",".">>

CRITICAL_FIELD_PREFIXES == << <<"P","r","o","j","e","k","t","n","a","m","e",":">>, <<"Z","i","e","l","g","r","u","p","p","e",":">>, <<"P","r","o","b","l","e","m",":">>, <<"F","e","a","t","u","r","e","s",":">> >>

\* if (property) contextParts.push(`Label: ${property}`)
stringPart(label, property) ==
  IF truthy(property) THEN << label \o property.value >> ELSE <<>>

\* if (property && property.length > 0)
\*   contextParts.push(`Label: ${property.join(', ')}`)
listPart(label, property) ==
  IF property.defined /\ Len(property.value) > 0
    THEN << label \o join(property.value, <<",", " ">>) >> ELSE <<>>

\* Lines 146-191: contextParts
contextParts(ctx) ==
  << CONTEXT_HEADERS_START >> \o
  stringPart(<<"P","r","o","j","e","k","t","n","a","m","e",":"," ">>, ctx.name) \o
  stringPart(<<"Z","i","e","l","g","r","u","p","p","e",":"," ">>, ctx.targetAudience) \o
  stringPart(<<"P","r","o","b","l","e","m",":"," ">>, ctx.problem) \o
  stringPart(<<"L","ö","s","u","n","g",":"," ">>, ctx.solution) \o
  stringPart(<<"U","n","i","q","u","e"," ","V","a","l","u","e",":"," ">>, ctx.uniqueValue) \o
  listPart(<<"F","e","a","t","u","r","e","s",":"," ">>, ctx.features) \o
  listPart(<<"T","e","c","h"," ","S","t","a","c","k",":"," ">>, ctx.techStack) \o
  stringPart(<<"T","i","m","e","l","i","n","e",":"," ">>, ctx.timeline) \o
  listPart(<<"R","i","s","i","k","e","n",":"," ">>, ctx.risks) \o
  listPart(<<"E","r","f","o","l","g","s","m","e","t","r","i","k","e","n",":"," ">>, ctx.successMetrics) \o
  << CONTEXT_HEADERS_END \o <<"\n">>, CONTEXT_HEADERS_IMPORTANT >>

\* A line trimContext keeps unconditionally.
isCritical(line) ==
  \/ \E i \in 1..Len(CRITICAL_FIELD_PREFIXES) :
       startsWith(line, CRITICAL_FIELD_PREFIXES[i])
  \/ startsWith(line, <<"=","=","=">>)
  \/ startsWith(line, <<"W","I","C","H","T","I","G",":">>)

\* for (const line of other) if (result.length + line.length <
\*   maxContextLength) result += '\n' + line
RECURSIVE appendFitting(_, _)
appendFitting(result, other) ==
  IF other = <<>> THEN result
  ELSE appendFitting(IF Len(result) + Len(Head(other)) < maxContextLength
                       THEN result \o <<"\n">> \o Head(other)
                       ELSE result,
                     Tail(other))

\* trimContext once the lines are known
trimLines(lines) ==
  appendFitting(join(filter(lines, LAMBDA line : isCritical(line)), <<"\n">>),
                filter(lines, LAMBDA line : ~isCritical(line)))

trimContext(fullContext) == trimLines(split(fullContext, "\n"))

\* Lines 193-200
fitContext(fullContext) ==
  IF Len(fullContext) > maxContextLength THEN trimContext(fullContext)
  ELSE fullContext

\* The text getContextForPrompt builds from a project context.
renderContext(ctx) == fitContext(join(contextParts(ctx), <<"\n">>))

(***************************************************************************)
(* contextMemory.ts: detectInconsistencies                                 *)
(***************************************************************************)

Digits ==
  [ c \in {"0", "1", "2", "3", "4", "5", "6", "7", "8", "9"} |->
      CASE c = "0" -> 0 [] c = "1" -> 1 [] c = "2" -> 2 [] c = "3" -> 3
        [] c = "4" -> 4 [] c = "5" -> 5 [] c = "6" -> 6 [] c = "7" -> 7
        [] c = "8" -> 8 [] c = "9" -> 9 ]

RECURSIVE digitsValue(_)
digitsValue(ds) ==
  IF ds = <<>> THEN 0
  ELSE 10 * digitsValue(SubSeq(ds, 1, Len(ds) - 1)) + Digits[ds[Len(ds)]]

\* The longest prefix of s made of decimal digits.
digitPrefix(s) ==
  SubSeq(s, 1, CHOOSE n \in 0..Len(s) :
                 /\ \A k \in 1..n : s[k] \in DOMAIN Digits
                 /\ (n < Len(s) => s[n + 1] \notin DOMAIN Digits))

\* parseInt of an unsigned text: the leading decimal digits, NaN without any
unsignedInt(s, sign) ==
  IF digitPrefix(s) = <<>> THEN NaN ELSE Num(sign * digitsValue(digitPrefix(s)))

\* parseInt after the leading whitespace is skipped: an optional sign, then
\* the digits (no model input starts with 0x)
signedInt(s) ==
  IF s # <<>> /\ s[1] = "-" THEN unsignedInt(Tail(s), -1)
  ELSE IF s # <<>> /\ s[1] = "+" THEN unsignedInt(Tail(s), 1)
  ELSE unsignedInt(s, 1)

\* The string without its leading whitespace.
trimStart(s) ==
  IF \A i \in 1..Len(s) : s[i] \in Whitespace THEN <<>>
  ELSE SubSeq(s,
              CHOOSE i \in 1..Len(s) :
                s[i] \notin Whitespace /\ \A k \in 1..(i - 1) : s[k] \in Whitespace,
              Len(s))

\* parseInt(string)
parseInt(s) == signedInt(trimStart(s))

\* Lines 255-266: the entries whose question names the audience
audienceEntries(entries) ==
  filter(entries,
         LAMBDA e : \/ includes(toLowerCase(e.question), <<"z","i","e","l","g","r","u","p","p","e">>)
                    \/ includes(toLowerCase(e.question), <<"a","u","d","i","e","n","c","e">>))

\* new Set(audiences).size
distinctAnswers(entries) ==
  Cardinality({ entries[i].answer : i \in 1..Len(entries) })

\* Lines 260-266, once the audience entries are known
audienceCheck(entries) ==
  IF Len(entries) > 1 /\ distinctAnswers(entries) > 1
    THEN [ issues |-> << [ text |-> "Zielgruppe wurde mehrfach unterschiedlich definiert",
                           detail |-> <<>> ] >>,
           affectedQuestions |-> map(entries, LAMBDA e : e.question) ]
    ELSE [ issues |-> <<>>, affectedQuestions |-> <<>> ]

tightTimeline_belowOne(weeks, featureCount) ==
  IF isFinite(weeks) /\ featureCount > 0 /\ weeks.value < featureCount
    THEN [ issues |-> << [ text |-> "Timeline sehr knapp",
                           detail |-> << weeks.value, featureCount >> ] >>,
           affectedQuestions |-> << <<"T","i","m","e","l","i","n","e">>, <<"F","e","a","t","u","r","e","s">> >> ]
    ELSE [ issues |-> <<>>, affectedQuestions |-> <<>> ]

\* Lines 289-295, once weeks and featureCount are known.  The issue text
\* embeds weeksPerFeature.toFixed(1); the model keeps the two numbers.
tightTimeline(weeks, featureCount) ==
  IF isFinite(weeks) /\ featureCount > 0 /\ weeks.value < 2 * featureCount
    THEN [ issues |-> << [ text |-> "Timeline sehr knapp",
                           detail |-> << weeks.value, featureCount >> ] >>,
           affectedQuestions |-> << <<"T","i","m","e","l","i","n","e">>, <<"F","e","a","t","u","r","e","s">> >> ]
    ELSE [ issues |-> <<>>, affectedQuestions |-> <<>> ]

\* Lines 285-296
timelineCheck(ctx) ==
  IF truthy(ctx.timeline) /\ ctx.features.defined
    THEN tightTimeline(parseInt(ctx.timeline.value), Len(ctx.features.value))
    ELSE [ issues |-> <<>>, affectedQuestions |-> <<>> ]

\* Lines 298-302
ConsistencyCheck(issues, affectedQuestions) ==
  [ isConsistent      |-> Len(issues) = 0,
    issues            |-> issues,
    affectedQuestions |-> affectedQuestions ]

combineChecks(audience, timeline) ==
  ConsistencyCheck(audience.issues \o timeline.issues,
                   audience.affectedQuestions \o timeline.affectedQuestions)

\* The problem/audience block (lines 268-283) changes nothing.
detectInconsistencies(entries, ctx) ==
  combineChecks(audienceCheck(audienceEntries(entries)), timelineCheck(ctx))

(***************************************************************************)
(* part_016: the ContextMemoryService that caches its prompt context.      *)
(* Its getContextForPrompt builds the text line for line as the one above, *)
(* its detectInconsistencies, clear and import are the same code.          *)
(***************************************************************************)

\* detectContextType: patterns, in the order of the object literal
CONTEXT_PATTERNS ==
  << [ type |-> "name",           keywords |-> << <<"n","a","m","e">>, <<"p","r","o","j","e","k","t">> >> ],
     [ type |-> "description",    keywords |-> << <<"b","e","s","c","h","r","e","i","b","e","n">>, <<"d","e","s","c","r","i","b","e">> >> ],
     [ type |-> "targetAudience", keywords |-> << <<"z","i","e","l","g","r","u","p","p","e">>, <<"t","a","r","g","e","t">>, <<"a","u","d","i","e","n","c","e">> >> ],
     [ type |-> "problem",        keywords |-> << <<"p","r","o","b","l","e","m">> >> ],
     [ type |-> "uniqueValue",    keywords |-> << <<"e","i","n","z","i","g","a","r","t","i","g">>, <<"u","n","i","q","u","e">> >> ],
     [ type |-> "solution",       keywords |-> << <<"l","ö","s","u","n","g">>, <<"s","o","l","u","t","i","o","n">> >> ],
     [ type |-> "features",       keywords |-> << <<"f","e","a","t","u","r","e">>, <<"f","u","n","k","t","i","o","n">> >> ],
     [ type |-> "techStack",      keywords |-> << <<"t","e","c","h">>, <<"s","t","a","c","k">>, <<"t","e","c","h","n","o","l","o","g","i","e">> >> ],
     [ type |-> "timeline",       keywords |-> << <<"z","e","i","t">>, <<"t","i","m","e","l","i","n","e">>, <<"w","o","c","h","e","n">>, <<"w","e","e","k","s">> >> ],
     [ type |-> "risks",          keywords |-> << <<"r","i","s","k">>, <<"r","i","s","i","k","o">> >> ],
     [ type |-> "successMetrics", keywords |-> << <<"m","e","t","r","i","k">>, <<"m","e","t","r","i","c">>, <<"e","r","f","o","l","g">>, <<"s","u","c","c","e","s","s">> >> ] >>

\* Lines 92-96: the pattern matches and neither continue is taken.
patternSelects(pattern, q) ==
  /\ includesAny(q, pattern.keywords)
  /\ ~(pattern.type = "solution" /\ includes(q, <<"p","r","o","b","l","e","m">>))
  /\ ~(pattern.type = "uniqueValue" /\ ~includes(q, <<"e","i","n","z","i","g","a","r","t","i","g">>)
         /\ ~includes(q, <<"u","n","i","q","u","e">>))

\* The for loop of detectContextType on the lower-cased question; "null"
\* when no pattern selects it.
typeOfLower(q) ==
  IF \E i \in 1..Len(CONTEXT_PATTERNS) : patternSelects(CONTEXT_PATTERNS[i], q)
    THEN CONTEXT_PATTERNS[
           CHOOSE i \in 1..Len(CONTEXT_PATTERNS) :
             /\ patternSelects(CONTEXT_PATTERNS[i], q)
             /\ \A k \in 1..(i - 1) : ~patternSelects(CONTEXT_PATTERNS[k], q) ].type
    ELSE "null"

detectContextType(question) == typeOfLower(toLowerCase(question))

\* parseListAnswer(answer, existing): a list answer is split, any other
\* answer gives existing || [answer].
parseListAnswer(answer, existing) ==
  IF looksLikeList(answer) THEN listItems(answer)
  ELSE IF existing.defined THEN existing.value
  ELSE << answer >>

ListContextTypes == {"features", "techStack", "risks", "successMetrics"}

\* contextUpdateStrategies[contextType](answer)
applyStrategy(ctx, contextType, answer) ==
  IF contextType = "null" THEN ctx
  ELSE IF contextType \in ListContextTypes
    THEN [ctx EXCEPT ![contextType] = Defined(parseListAnswer(answer, ctx[contextType]))]
  ELSE [ctx EXCEPT ![contextType] = Defined(answer)]

\* part_016 updateProjectContext
updateByStrategy(ctx, entry) ==
  applyStrategy(ctx, detectContextType(entry.question), trim(entry.answer))

(***************************************************************************)
(* Specifications of the two services: any sequence of calls.              *)
(***************************************************************************)

Q_audience == <<"W","h","o"," ","i","s"," ","y","o","u","r"," ","t","a","r","g","e","t"," ","a","u","d","i","e","n","c","e","?">>

Q_target == <<"W","h","i","c","h"," ","t","a","r","g","e","t"," ","m","a","r","k","e","t","?">>

Q_zielgruppe == <<"Z","i","e","l","g","r","u","p","p","e","?">>

Q_timeline == <<"T","i","m","e","l","i","n","e"," ","i","n"," ","w","e","e","k","s","?">>

Q_features == <<"C","o","r","e"," ","f","e","a","t","u","r","e","s","?">>

Q_name == <<"N","a","m","e"," ","d","e","s"," ","P","r","o","j","e","k","t","s","?">>

Questions == {Q_audience, Q_target, Q_zielgruppe, Q_timeline, Q_features, Q_name}

A_teens == <<"T","e","e","n","s">>

A_seniors == <<" ","S","e","n","i","o","r","s"," ">>

A_weeks == <<"3"," ","w","e","e","k","s">>

A_list == <<"l","o","g","i","n",","," ","c","h","a","t">>

\* An answer long enough for the context to exceed maxContextLength.
A_long == [i \in 1..maxContextLength |-> "x"]

\* A list answer without any item.
A_commas == <<","," ">>

Answers == {A_teens, A_seniors, A_weeks, A_list, A_commas}

\* Every question with every short answer, and the long answer to the
\* timeline question.
Entries ==
  [question : Questions, answer : Answers]
    \cup {[question |-> Q_timeline, answer |-> A_long]}

MaxHistory == 2

\* What import is called with: an object without properties, and a saved
\* export.
ImportData ==
  { [ history |-> Undefined, projectContext |-> Undefined ],
    [ history |-> Defined(<< [question |-> Q_audience, answer |-> A_seniors] >>),
      projectContext |->
        Defined([EmptyContext EXCEPT !.targetAudience = Defined(trim(A_seniors))]) ] }

NoArguments == [none |-> TRUE]

InitService ==
  /\ pc = "start"
  /\ args = NoArguments
  /\ locals = NoLocals
  /\ ret = NoResult
  /\ Constructed

AddEntry_unshift ==
  /\ Len(history) < MaxHistory
  /\ \E entry \in Entries :
       /\ history' = << entry >> \o history
       /\ projectContext' = updateProjectContext(projectContext, entry)
  /\ pc' = "addEntry"
  /\ ret' = NoResult
  /\ UNCHANGED <<args, locals, cachedContext, contextDirty>>

\* addEntry(entry) of contextMemory.ts
AddEntry ==
  /\ Len(history) < MaxHistory
  /\ \E entry \in Entries :
       /\ history' = Append(history, entry)
       /\ projectContext' = updateProjectContext(projectContext, entry)
  /\ pc' = "addEntry"
  /\ ret' = NoResult
  /\ UNCHANGED <<args, locals, cachedContext, contextDirty>>

\* getContextForPrompt() of contextMemory.ts
GetContextForPrompt ==
  /\ pc' = "getContextForPrompt"
  /\ ret' = renderContext(projectContext)
  /\ UNCHANGED <<args, locals>>
  /\ UNCHANGED serviceVars

\* getHistory() of either service: a copy of the history
GetHistory ==
  /\ pc' = "getHistory"
  /\ ret' = history
  /\ UNCHANGED <<args, locals>>
  /\ UNCHANGED serviceVars

\* detectInconsistencies() of either service
DetectInconsistencies ==
  /\ pc' = "detectInconsistencies"
  /\ ret' = detectInconsistencies(history, projectContext)
  /\ UNCHANGED <<args, locals>>
  /\ UNCHANGED serviceVars

\* clear() of either service: history and projectContext are reset, no
\* other field is assigned.
Clear ==
  /\ history' = <<>>
  /\ projectContext' = EmptyContext
  /\ pc' = "clear"
  /\ ret' = NoResult
  /\ UNCHANGED <<args, locals, cachedContext, contextDirty>>

\* import(data) of either service: data.history || [] and
\* data.projectContext || {}, no other field is assigned.
Import ==
  /\ \E data \in ImportData :
       /\ history' = IF data.history.defined THEN data.history.value ELSE <<>>
       /\ projectContext' = IF data.projectContext.defined
                              THEN data.projectContext.value ELSE EmptyContext
  /\ pc' = "import"
  /\ ret' = NoResult
  /\ UNCHANGED <<args, locals, cachedContext, contextDirty>>

NextContextMemory ==
  \/ AddEntry \/ GetHistory \/ GetContextForPrompt \/ DetectInconsistencies
  \/ Clear \/ Import

SpecContextMemory == InitService /\ [][NextContextMemory]_vars

\* The entries the caching service is called with.
CachedEntries == [question : {Q_audience, Q_features, Q_name}, answer : {A_teens, A_list}]

\* addEntry(entry) of part_016
CachedAddEntry ==
  /\ Len(history) < MaxHistory
  /\ \E entry \in CachedEntries :
       /\ history' = Append(history, entry)
       /\ projectContext' = updateByStrategy(projectContext, entry)
  /\ contextDirty' = TRUE
  /\ pc' = "addEntry"
  /\ ret' = NoResult
  /\ UNCHANGED <<args, locals, cachedContext>>

\* getContextForPrompt() of part_016, lines 119-122: the cached text
CachedContextHit ==
  /\ truthy(cachedContext) /\ ~contextDirty
  /\ pc' = "getContextForPrompt"
  /\ ret' = cachedContext.value
  /\ UNCHANGED <<args, locals>>
  /\ UNCHANGED serviceVars

\* getContextForPrompt() of part_016, lines 124-182: build and cache
CachedContextBuild ==
  /\ ~(truthy(cachedContext) /\ ~contextDirty)
  /\ pc' = "getContextForPrompt"
  /\ ret' = renderContext(projectContext)
  /\ cachedContext' = Defined(renderContext(projectContext))
  /\ contextDirty' = FALSE
  /\ UNCHANGED <<args, locals, history, projectContext>>

CachedGetContextForPrompt == CachedContextHit \/ CachedContextBuild

NextCachedContextMemory ==
  CachedAddEntry \/ CachedGetContextForPrompt \/ DetectInconsistencies \/ Clear \/ Import

SpecCachedContextMemory == InitService /\ [][NextCachedContextMemory]_vars

(***************************************************************************)
(* Claims about the context memory                                         *)
(***************************************************************************)

InconsistenciesDetected == pc = "detectInconsistencies"

AudienceRedefined == "Zielgruppe wurde mehrfach unterschiedlich definiert"

ReportsAudienceRedefined ==
  \E i \in 1..Len(ret.issues) : ret.issues[i].text = AudienceRedefined

\* The entries whose question matches one of the keywords.
EntriesMatching(keywords) ==
  filter(history, LAMBDA e : includesAny(toLowerCase(e.question), keywords))

\* The audience issue is reported exactly when the entries matching the
\* keywords carry more than one distinct answer, and then the affected
\* questions begin with the questions of those entries; isConsistent iff
\* there is no issue.
AudienceRule(keywords) ==
  /\ ReportsAudienceRedefined <=> distinctAnswers(EntriesMatching(keywords)) > 1
  /\ ReportsAudienceRedefined =>
       /\ ret.isConsistent = FALSE
       /\ Len(ret.affectedQuestions) >= Len(EntriesMatching(keywords))
       /\ SubSeq(ret.affectedQuestions, 1, Len(EntriesMatching(keywords)))
            = map(EntriesMatching(keywords), LAMBDA e : e.question)
  /\ ret.isConsistent <=> ret.issues = <<>>

\* C11: detectInconsistencies reports the audience-redefined issue exactly
\* when the history entries whose question matches an audience/target
\* keyword (zielgruppe, target, audience: the keywords that make addEntry
\* record the answer as the target audience) carry more than one distinct
\* answer, naming those questions; isConsistent iff issues is empty.
C11_AudienceRedefinedIffDistinctAnswers ==
  InconsistenciesDetected =>
    AudienceRule(<< <<"z","i","e","l","g","r","u","p","p","e">>, <<"t","a","r","g","e","t">>, <<"a","u","d","i","e","n","c","e">> >>)

\* What the code computes: the same rule over the questions containing
\* zielgruppe or audience only.
C11_AsComputed ==
  InconsistenciesDetected => AudienceRule(<< <<"z","i","e","l","g","r","u","p","p","e">>, <<"a","u","d","i","e","n","c","e">> >>)

\* Scenario F: two entries asking for the target audience with differing
\* answers were found inconsistent.
C11_ScenarioF ==
  /\ InconsistenciesDetected
  /\ Len(history) = 2
  /\ history[1].question = Q_audience /\ history[2].question = Q_audience
  /\ history[1].answer # history[2].answer
  /\ ~ret.isConsistent
  /\ Len(ret.issues) = 1

PromptReturned == pc = "getContextForPrompt"

\* C12: getContextForPrompt returns the text rendered from the project
\* context as it stands at the time of the call.
C12_PromptIsSnapshot ==
  PromptReturned => ret = renderContext(projectContext)

(***************************************************************************)
(* Further claims about validateSoloDeveloperCapacity                      *)
(***************************************************************************)

TooAggressive == "Timeline too aggressive for feature set"

Recommends(entry) ==
  \E i \in 1..Len(ret.recommendations) : ret.recommendations[i] = entry

\* C13: with timelineWeeks = 0 and any feature list, the empty one included,
\* validateSoloDeveloperCapacity returns a result (the division yields
\* Infinity or NaN, no error) with feasible = false whose recommendations
\* contain the too-aggressive entry.
C13_ZeroTimelineInfeasible ==
  (CapacityChecked /\ args.timelineWeeks = 0) =>
    /\ ret.feasible = FALSE
    /\ Recommends(TooAggressive)
    /\ ret.utilizationPercent \in {Infinity, NaN}
    /\ ret.availableWeeks = 0

\* A call with no feature and no week: 0 / 0.
C13_WitnessEmpty ==
  /\ CapacityChecked
  /\ args.timelineWeeks = 0
  /\ args.features = <<>>
  /\ ret.utilizationPercent = NaN
  /\ ~ret.feasible
  /\ Recommends(TooAggressive)

TightEntries ==
  << "Timeline is tight but achievable",
     "Consider adding 1-2 weeks buffer for unexpected issues" >>

GoodBufferEntries == << "Timeline has good buffer - consider earlier launch" >>

\* The entries of an infeasible plan.
InfeasibleEntries(features, complexityScores, weeks100) ==
  << TooAggressive >> \o
  (IF Len(features) > 3 THEN << "Reduce to 3 core features maximum" >> ELSE <<>>) \o
  (IF some(complexityScores, LAMBDA c : c.level \in {"high", "extreme"})
     THEN << "Simplify or defer high-complexity features" >> ELSE <<>>) \o
  << [suggestedWeeks |-> CeilDiv(weeks100, 80)] >>

\* The banding of the recommendations, given whether the utilization is
\* above 60 and whether it is below 40.
RecommendationBands(features, complexityScores, weeks100, above60, below40) ==
  /\ ~ret.feasible =>
       ret.recommendations = InfeasibleEntries(features, complexityScores, weeks100)
  /\ (ret.feasible /\ above60) => ret.recommendations = TightEntries
  /\ below40 => ret.recommendations = GoodBufferEntries
  /\ (ret.feasible /\ ~above60 /\ ~below40) => ret.recommendations = <<>>

BandsOfWeeks(features, complexityScores, weeks100, timelineWeeks) ==
  RecommendationBands(features, complexityScores, weeks100,
                      quotientAbove(weeks100, timelineWeeks, 60),
                      quotientLess(weeks100, timelineWeeks, 40))

BandsOfScores(features, complexityScores, timelineWeeks, experienceLevel) ==
  BandsOfWeeks(features, complexityScores,
               adjustedWeeks100(complexityScores, experienceLevel), timelineWeeks)

\* C19: the recommendations follow the banding on the utilization
\* adjustedWeeks / timelineWeeks * 100: infeasible plans get the
\* too-aggressive entry, the reduce entry iff there are more than 3
\* features, the defer entry iff some feature is high or extreme, and the
\* suggested timeline ceil(adjustedWeeks / 0.8); feasible plans above 60 get
\* the two tight entries, plans below 40 the good-buffer entry, and feasible
\* plans from 40 to 60 inclusive get no entry.
C19_RecommendationBands ==
  CapacityChecked =>
    BandsOfScores(args.features,
                  map(args.features, LAMBDA f : analyzeFeatureComplexity(f)),
                  args.timelineWeeks, args.experienceLevel)

DoubleBandsOfWeeks(features, complexityScores, weeks100, timelineWeeks) ==
  RecommendationBands(features, complexityScores, weeks100,
                      utilizationAbove60(weeks100, timelineWeeks),
                      quotientLess(weeks100, timelineWeeks, 40))

DoubleBandsOfScores(features, complexityScores, timelineWeeks, experienceLevel) ==
  DoubleBandsOfWeeks(features, complexityScores,
                     adjustedWeeks100(complexityScores, experienceLevel), timelineWeeks)

\* What does hold: the same banding on the utilization as the doubles give
\* it, in which a quotient of exactly 60 comes out above 60.
C19_BandsAsComputed ==
  CapacityChecked =>
    DoubleBandsOfScores(args.features,
                        map(args.features, LAMBDA f : analyzeFeatureComplexity(f)),
                        args.timelineWeeks, args.experienceLevel)

(***************************************************************************)
(* Specification of the analyzer on a feature text and on the text with a  *)
(* high-complexity keyword inserted: two calls.                            *)
(***************************************************************************)

\* s with keyword put in after its first position characters.
insertAt(s, keyword, position) ==
  SubSeq(s, 1, position) \o keyword \o SubSeq(s, position + 1, Len(s))

InsertionFragments == { <<"A","I">>, <<"b","l","o","c","k","c","h","a","i","n">>, <<"p","a","y","m","e","n","t">>, <<"a","n","d"," ","a","l","s","o">>, <<" ">> }

MaxInsertionFrags == 2

\* Texts of fragments, and texts one character under the length limit.
InsertionTexts ==
  { Concat(fs) : fs \in SeqsUpTo(InsertionFragments, MaxInsertionFrags) }
  \cup { [i \in 1..(LengthLimit - 1) |-> "x"] \o f : f \in InsertionFragments }

\* Every position of a text of fragments; both ends and the end of the
\* filler of a long text.
InsertionPositions(feature) ==
  IF Len(feature) < LengthLimit THEN 0..Len(feature)
  ELSE {0, LengthLimit - 1, LengthLimit, Len(feature)}

InsertionArgs ==
  UNION { [ feature : {feature},
            keyword : {COMPLEXITY_KEYWORDS_high[k] :
                         k \in 1..Len(COMPLEXITY_KEYWORDS_high)},
            position : InsertionPositions(feature) ] : feature \in InsertionTexts }

InitInsertion ==
  /\ pc = "start"
  /\ args \in InsertionArgs
  /\ locals = NoLocals
  /\ ret = NoResult
  /\ Constructed

\* analyzeFeatureComplexity(feature)
AnalyzeOriginal ==
  /\ pc = "start"
  /\ pc' = "original"
  /\ locals' = [original |-> analyzeFeatureComplexity(args.feature)]
  /\ UNCHANGED <<args, ret>>
  /\ UNCHANGED serviceVars

\* analyzeFeatureComplexity of the text with the keyword inserted
AnalyzeInserted ==
  /\ pc = "original"
  /\ pc' = "inserted"
  /\ ret' = analyzeFeatureComplexity(
              insertAt(args.feature, args.keyword, args.position))
  /\ UNCHANGED <<args, locals>>
  /\ UNCHANGED serviceVars

NextInsertion == AnalyzeOriginal \/ AnalyzeInserted

SpecInsertion == InitInsertion /\ [][NextInsertion]_vars

BothAnalyzed == pc = "inserted"

\* C14 as stated: inserting a further occurrence of a high-complexity
\* keyword anywhere in a feature text never yields a lower score than the
\* score of the original text.
C14_InsertionNeverLowersScore ==
  BothAnalyzed => ret.score2 >= locals.original.score2

\* C14, amended: putting a further occurrence of a high-complexity keyword
\* in front of a feature text or behind it never yields a lower score than
\* the score of the original text.
C14_AppendingNeverLowersScore ==
  (BothAnalyzed /\ args.position \in {0, Len(args.feature)}) =>
    ret.score2 >= locals.original.score2

\* A keyword the text already contains was appended, and the score stayed.
C14_Witness ==
  /\ BothAnalyzed
  /\ args.position = Len(args.feature)
  /\ args.feature = <<"A","I","b","l","o","c","k","c","h","a","i","n">>
  /\ args.keyword = <<"A","I">>
  /\ ret.score2 = locals.original.score2
  /\ ret.score2 = 14

(***************************************************************************)
(* Specification of detectOverengineering: one call.                       *)
(***************************************************************************)

T_postgres == <<"p","o","s","t","g","r","e","s">>

T_Microservices == <<"M","i","c","r","o","s","e","r","v","i","c","e","s">>

T_GraphQL == <<"G","r","a","p","h","Q","L">>

T_MySQLMongo == <<"M","y","S","Q","L"," ","+"," ","M","o","n","g","o","D","B">>

OverengineeringTech ==
  { T_Kubernetes, T_Microservices, T_Redis, T_GraphQL, T_PostgreSQL, T_postgres,
    T_MySQLMongo, T_React }

MaxStackSize == 2

\* n times the feature
repeated(feature, n) == [i \in 1..n |-> feature]

\* Feature lists on both sides of the lengths 5 and 10, with and without
\* real-time, chat and collaboration.
OverengineeringFeatures ==
  { <<>>,
    << F_login >>,
    << <<"R","e","a","l","-","t","i","m","e"," ","f","e","e","d">> >>,
    << <<"R","e","a","l","-","t","i","m","e"," ","f","e","e","d">>, <<"C","h","a","t">> >>,
    << <<"r","e","a","l","-","t","i","m","e"," ","C","o","l","l","a","b","o","r","a","t","i","o","n">> >>,
    repeated(<<"C","R","U","D"," ","l","i","s","t">>, 4) \o << <<"R","e","a","l","-","t","i","m","e"," ","f","e","e","d">> >>,
    repeated(<<"C","R","U","D"," ","l","i","s","t">>, 9),
    repeated(<<"C","R","U","D"," ","l","i","s","t">>, 10) }

UserCounts == {0, 50, 999, 1000, 9999, 10000}

InitOverengineering ==
  /\ pc = "start"
  /\ args \in [ techStack : SeqsUpTo(OverengineeringTech, MaxStackSize),
                features : OverengineeringFeatures,
                userCount : UserCounts ]
  /\ locals = NoLocals
  /\ ret = NoResult
  /\ Constructed

DetectOverengineering ==
  /\ pc = "start"
  /\ pc' = "detectOverengineering"
  /\ ret' = detectOverengineering(args.techStack, args.features, args.userCount)
  /\ UNCHANGED <<args, locals>>
  /\ UNCHANGED serviceVars

NextOverengineering == DetectOverengineering

SpecOverengineering == InitOverengineering /\ [][NextOverengineering]_vars

OverengineeringChecked == pc = "detectOverengineering"

\* C15: detectOverengineering returns issues and suggestions of equal
\* length, suggestions[i] being the suggestion pushed with issues[i] (one
\* pair per rule that fired), and detected is true iff issues is non-empty.
C15_IssuesPairedWithSuggestions ==
  OverengineeringChecked =>
    /\ Len(ret.issues) = Len(ret.suggestions)
    /\ \A i \in 1..Len(ret.issues) :
         \E k \in 1..Len(OVERENGINEERING_ISSUES) :
           /\ ret.issues[i] = OVERENGINEERING_ISSUES[k]
           /\ ret.suggestions[i] = OVERENGINEERING_SUGGESTIONS[k]
    /\ ret.detected <=> Len(ret.issues) > 0

\* The Kubernetes and the Redis rule fired.
C15_Witness ==
  /\ OverengineeringChecked
  /\ args.techStack = << T_Kubernetes, T_Redis >>
  /\ args.userCount = 999
  /\ ret.detected
  /\ Len(ret.issues) = 2
  /\ ret.suggestions[2] = "Use in-memory caching initially"

\* Nothing fired.
C15_WitnessNone ==
  /\ OverengineeringChecked
  /\ ~ret.detected
  /\ ret.issues = <<>>
  /\ ret.suggestions = <<>>
  /\ args.techStack = << T_Kubernetes, T_React >>

ReportsMultipleDatabases ==
  \E i \in 1..Len(ret.issues) :
    ret.issues[i] = "Multiple databases increase complexity"

\* The database names that occur in some entry of the tech stack.
databaseNamesPresent(techStack) ==
  { k \in 1..Len(DATABASE_NAMES) : someIncludes(techStack, DATABASE_NAMES[k]) }

\* C16: the multiple-databases issue is emitted exactly when more than one
\* of the names postgres, mysql, mongodb, redis, elasticsearch, dynamodb is
\* present in the tech stack, and not when only one of them is.
C16_MultipleDatabasesIffSeveralNames ==
  OverengineeringChecked =>
    (ReportsMultipleDatabases
       <=> Cardinality(databaseNamesPresent(args.techStack)) > 1)

\* What does hold: the issue is emitted exactly when more than one entry of
\* the tech stack contains a database name.
C16_MultipleDatabasesIffSeveralEntries ==
  OverengineeringChecked =>
    (ReportsMultipleDatabases <=> Len(databasesIn(args.techStack)) > 1)

(***************************************************************************)
(* Further claims about analyzeFeatureComplexity                           *)
(***************************************************************************)

\* The number of keywords of a table that occur in the text, whatever the
\* case of either.
occurring(feature, tier) ==
  Cardinality({ k \in 1..Len(tier) :
                  includes(toLowerCase(feature), toLowerCase(tier[k])) })

\* Twice 1 + 3h + 1.5m + 2c + l
claimedScore2(h, m, c, l) == 2 + 6 * h + 3 * m + 4 * c + 2 * l

ScoreFormula(feature, h, m) ==
  /\ ret.score2 =
       capScore(claimedScore2(h, m,
                  IF \E p \in 1..Len(SCOPE_CREEP_PHRASES) :
                       includes(toLowerCase(feature), SCOPE_CREEP_PHRASES[p])
                    THEN 1 ELSE 0,
                  IF Len(feature) > 100 THEN 1 ELSE 0))
  /\ ret.score2 <= 20
  /\ h >= 2 => (ret.score2 >= 14 /\ ret.level \in {"high", "extreme"})

\* C17: score = min(10, 1 + 3h + 1.5m + 2c + l) with h and m the numbers of
\* high and of medium keywords occurring as case-insensitive substrings, c = 1
\* iff a scope-creep phrase occurs and l = 1 iff the length exceeds 100; a
\* feature matching two high keywords scores at least 7 and is high or
\* extreme.
C17_ScoreFormula ==
  Analyzed =>
    ScoreFormula(args.feature,
                 occurring(args.feature, COMPLEXITY_KEYWORDS_high),
                 occurring(args.feature, COMPLEXITY_KEYWORDS_medium))

\* Two high keywords and nothing else: score 7, level high.
C17_Witness ==
  /\ Analyzed
  /\ occurring(args.feature, COMPLEXITY_KEYWORDS_high) = 2
  /\ occurring(args.feature, COMPLEXITY_KEYWORDS_medium) = 0
  /\ ret.score2 = 14
  /\ ret.level = "high"

(***************************************************************************)
(* Further claims about calculateMVPReadiness                              *)
(***************************************************************************)

\* The four deductions as claimed.
claimedProblemDeduction(pain) == IF pain >= 8 THEN 0 ELSE IF pain < 6 THEN 20 ELSE 10

claimedScopeDeduction(featureCount) ==
  IF featureCount <= 4 THEN 0 ELSE IF featureCount > 6 THEN 30 ELSE 15

claimedTechDeduction(techCount) ==
  IF techCount <= 2 THEN 0 ELSE IF techCount > 4 THEN 25 ELSE 12

claimedTimelineDeduction(weeks) ==
  IF numGeq(weeks, 6) /\ numLeq(weeks, 12) THEN 0
  ELSE IF numLess(weeks, 3) THEN 25
  ELSE IF numGreater(weeks, 20) THEN 15
  ELSE 10

claimedReadiness(deductions) ==
  IF 100 - deductions > 0 THEN 100 - deductions ELSE 0

ReadinessFormula(pain, featureCount, techCount, weeks) ==
  /\ ret.score = claimedReadiness(claimedProblemDeduction(pain)
                                    + claimedScopeDeduction(featureCount)
                                    + claimedTechDeduction(techCount)
                                    + claimedTimelineDeduction(weeks))
  /\ ret.blockers # <<>> <=>
       (featureCount > 6 \/ techCount > 4 \/ numLess(weeks, 3))

\* C18: score = max(0, 100 - d1 - d2 - d3 - d4) with the four banded
\* deductions on pain level, feature count (3 core features and the
\* nice-to-have ones), technology count (the comma-separated parts of
\* known_frameworks) and weeks until the target date, and blockers is
\* non-empty exactly when featureCount > 6 or techCount > 4 or weeks < 3.
C18_ScoreIsHundredMinusDeductions ==
  Scored =>
    ReadinessFormula(args.data.problem.pain_level,
                     3 + Len(args.data.scope.nice_to_have),
                     Len(split(args.data.tech.known_frameworks, ",")),
                     weeksUntil(args.data.launch.target_date, args.today))

\* Every rule in its middle branch: 100 - 10 - 15 - 12 - 10, and no blocker.
C18_Witness ==
  /\ Scored
  /\ ret.score = 53
  /\ ret.blockers = <<>>
  /\ args.data.problem.pain_level = 6
  /\ Len(args.data.scope.nice_to_have) = 3

(***************************************************************************)
(* Specification of checkTimelineSanity: one call.                         *)
(***************************************************************************)

MaxSanityFeatures == 4

MaxSanityTarget == 32

InitTimelineSanity ==
  /\ pc = "start"
  /\ args \in [ features : SeqsUpTo(FeaturePool, MaxSanityFeatures),
                targetWeeks : 0..MaxSanityTarget,
                hasExistingCode : BOOLEAN ]
  /\ locals = NoLocals
  /\ ret = NoResult
  /\ Constructed

CheckTimelineSanity ==
  /\ pc = "start"
  /\ pc' = "checkTimelineSanity"
  /\ ret' = checkTimelineSanity(args.features, args.targetWeeks, args.hasExistingCode)
  /\ UNCHANGED <<args, locals>>
  /\ UNCHANGED serviceVars

NextTimelineSanity == CheckTimelineSanity

SpecTimelineSanity == InitTimelineSanity /\ [][NextTimelineSanity]_vars

SanityChecked == pc = "checkTimelineSanity"

\* ceil((base + 0.5 + ceil(0.2 base) + 0.5 + ceil(0.3 base)) * factor), the
\* factor in tenths.
claimedAdjustedTimeline(base, factor10) ==
  CeilDiv(factor10 * (base + CeilDiv(2 * base, 10) + CeilDiv(3 * base, 10) + 1), 10)

\* The band of targetWeeks / adjustedTimeline.
claimedRiskLevel(targetWeeks, adjustedTimeline) ==
  IF 10 * targetWeeks >= 12 * adjustedTimeline THEN "low"
  ELSE IF 10 * targetWeeks >= 9 * adjustedTimeline THEN "medium"
  ELSE IF 10 * targetWeeks >= 6 * adjustedTimeline THEN "high"
  ELSE "extreme"

SanityFormula(base, targetWeeks, hasExistingCode) ==
  /\ ret.adjustedTimeline =
       claimedAdjustedTimeline(base, IF hasExistingCode THEN 8 ELSE 10)
  /\ ret.adjustedTimeline >= 1
  /\ ret.riskLevel = claimedRiskLevel(targetWeeks, ret.adjustedTimeline)
  /\ ret.sane <=> ret.riskLevel # "extreme"

\* C20: adjustedTimeline = ceil((base + 0.5 + ceil(0.2 base) + 0.5 +
\* ceil(0.3 base)) * (0.8 with existing code, else 1)) with base the sum of
\* the features' estimatedWeeks; riskLevel is low, medium, high for a ratio
\* targetWeeks / adjustedTimeline of at least 1.2, 0.9, 0.6 and extreme
\* below; sane iff riskLevel is not extreme; adjustedTimeline is at least 1,
\* also for an empty feature list.
C20_AdjustedTimelineAndRisk ==
  SanityChecked =>
    SanityFormula(sumOver(map(args.features, LAMBDA f : analyzeFeatureComplexity(f)),
                          LAMBDA c : c.estimatedWeeks),
                  args.targetWeeks, args.hasExistingCode)

\* An empty feature list with existing code: ceil(1 * 0.8) = 1 week, and a
\* target of one week is a ratio of 1, medium.
C20_Witness ==
  /\ SanityChecked
  /\ args.features = <<>>
  /\ args.hasExistingCode
  /\ args.targetWeeks = 1
  /\ ret.adjustedTimeline = 1
  /\ ret.riskLevel = "medium"
  /\ ret.sane

(***************************************************************************)
(* Further claims about prioritizeFeatures                                 *)
(***************************************************************************)

\* The features of the list whose score is score2, in the order of the list.
withScore(features, score2) ==
  filter(features, LAMBDA f : analyzeFeatureComplexity(f).score2 = score2)

\* C21: in the result the features of equal complexity score appear in the
\* relative order of the input list (the sort is stable and ascending), so
\* the walk visits them in input order.
C21_EqualScoresKeepInputOrder ==
  Prioritized =>
    /\ \A score2 \in {ret[i].complexity.score2 : i \in 1..Len(ret)} :
         withScore(map(ret, LAMBDA e : e.feature), score2)
           = withScore(args.features, score2)
    /\ \A i \in 1..(Len(ret) - 1) :
         ret[i].complexity.score2 <= ret[i + 1].complexity.score2
    /\ ret = prioritizeFeatures(args.features, args.timelineWeeks, args.mvpGoal)

\* Two different features of equal score, given after a more complex one
\* and in the order signup, login, come out in that order.
C21_Witness ==
  /\ Prioritized
  /\ args.features = << F_payment, F_signup, F_login >>
  /\ map(ret, LAMBDA e : e.feature) = << F_signup, F_login, F_payment >>

\* The estimatedWeeks of the entries with one of the priorities, summed.
weeksOf(prioritized, priorities) ==
  sumOver(filter(prioritized, LAMBDA e : e.priority \in priorities),
          LAMBDA e : e.complexity.estimatedWeeks)

Charged == {"must-have", "should-have"}

\* C22: a visit adds the feature's estimatedWeeks to weeksBudgeted when it
\* classifies the feature must-have or should-have and leaves weeksBudgeted
\* unchanged when it classifies it nice-to-have or defer.
C22_OnlyMustAndShouldAreCharged ==
  [][ PrioritizeVisit =>
        /\ locals'.prioritized[locals.i].priority \in Charged =>
             locals'.weeksBudgeted = locals.weeksBudgeted
               + locals.analyzed[locals.i].complexity.estimatedWeeks
        /\ locals'.prioritized[locals.i].priority \notin Charged =>
             locals'.weeksBudgeted = locals.weeksBudgeted ]_vars

\* A nice-to-have entry was pushed after a charged one and the budget is
\* still that of the charged entry alone.
C22_Witness ==
  /\ pc = "forEach"
  /\ Len(locals.prioritized) = 2
  /\ locals.prioritized[1].priority = "should-have"
  /\ locals.prioritized[2].priority = "nice-to-have"
  /\ locals.weeksBudgeted = locals.prioritized[1].complexity.estimatedWeeks

\* C26: in every result the estimatedWeeks of the must-have features sum to
\* at most 0.7 * timelineWeeks and those of the must-have and should-have
\* features together to at most 0.9 * timelineWeeks.
C26_BudgetInvariant ==
  Prioritized =>
    /\ 10 * weeksOf(ret, {"must-have"}) <= 7 * args.timelineWeeks
    /\ 10 * weeksOf(ret, Charged) <= 9 * args.timelineWeeks

\* Should-have entries of 3 weeks around a must-have entry of 1 week in a
\* timeline of 5 weeks, 90 percent of which are 4.5 weeks.
C26_Witness ==
  /\ Prioritized
  /\ args.timelineWeeks = 5
  /\ weeksOf(ret, {"must-have"}) = 1
  /\ weeksOf(ret, {"should-have"}) = 3

(***************************************************************************)
(* Further claims about the context memory                                 *)
(***************************************************************************)

ReportsTightTimeline ==
  \E i \in 1..Len(ret.issues) : ret.issues[i].text = "Timeline sehr knapp"

\* The timeline begins, after white space and a sign, with a digit.
startsWithInteger(timeline) ==
  \E n \in 1..Len(timeline) :
    /\ timeline[n] \in DOMAIN Digits
    /\ \A k \in 1..(n - 1) : timeline[k] \in Whitespace \cup {"+", "-"}

\* The tight-timeline rule on a timeline text and a feature list, each
\* absent or present.
TightTimelineRule(timeline, features) ==
  /\ ReportsTightTimeline <=>
       /\ timeline.defined /\ features.defined
       /\ isFinite(parseInt(timeline.value))
       /\ Len(features.value) > 0
       /\ parseInt(timeline.value).value < 2 * Len(features.value)
  /\ (timeline.defined /\ ~startsWithInteger(timeline.value)) => ~ReportsTightTimeline
  /\ (~timeline.defined \/ ~features.defined) => ~ReportsTightTimeline
  /\ (features.defined /\ features.value = <<>>) => ~ReportsTightTimeline

\* C23: detectInconsistencies reports the tight-timeline issue exactly when
\* the derived context holds a timeline whose leading integer parses to
\* weeks and a non-empty feature list with weeks / featureCount < 2; a
\* timeline that does not start with an integer and an absent or empty
\* feature list never produce it.
C23_TightTimelineIffFewWeeksPerFeature ==
  InconsistenciesDetected =>
    TightTimelineRule(projectContext.timeline, projectContext.features)

\* 3 weeks for the two features login and chat: 1.5 weeks per feature.
C23_Witness ==
  /\ InconsistenciesDetected
  /\ projectContext.timeline = Defined(<<"3"," ","w","e","e","k","s">>)
  /\ projectContext.features = Defined(<< <<"l","o","g","i","n">>, <<"c","h","a","t">> >>)
  /\ ReportsTightTimeline
  /\ ~ret.isConsistent
  /\ ret.affectedQuestions = << <<"T","i","m","e","l","i","n","e">>, <<"F","e","a","t","u","r","e","s">> >>

\* A timeline without a number and an empty feature list: no issue.
C23_WitnessNone ==
  /\ InconsistenciesDetected
  /\ projectContext.timeline = Defined(<<"T","e","e","n","s">>)
  /\ projectContext.features = Defined(<<>>)
  /\ ret.isConsistent

ReportsKubernetes ==
  \E i \in 1..Len(ret.issues) :
    ret.issues[i] = "Kubernetes is overkill for < 10k users"

\* Some entry of the tech stack contains the name, whatever its case.
namesTechnology(techStack, name) ==
  \E i \in 1..Len(techStack) : includes(toLowerCase(techStack[i]), name)

\* C24: the Kubernetes-overkill issue is emitted exactly when some entry of
\* the tech stack contains 'kubernetes', in any case, and userCount <
\* 10000, whatever the other rules do; with userCount >= 10000 it is never
\* emitted.
C24_KubernetesIffNamedAndBelowTenThousand ==
  OverengineeringChecked =>
    /\ ReportsKubernetes <=>
         (namesTechnology(args.techStack, <<"k","u","b","e","r","n","e","t","e","s">>) /\ args.userCount < 10000)
    /\ args.userCount >= 10000 => ~ReportsKubernetes
    /\ ReportsKubernetes =>
         (ret.detected /\ ret.issues[1] = "Kubernetes is overkill for < 10k users"
            /\ ret.suggestions[1] = "Use simple VPS or PaaS like Railway/Fly.io")

\* Scenario D: Kubernetes and PostgreSQL for one feature and 50 users.
C24_ScenarioD ==
  /\ OverengineeringChecked
  /\ args.techStack = << T_Kubernetes, T_PostgreSQL >>
  /\ args.features = << F_login >>
  /\ args.userCount = 50
  /\ ret.detected
  /\ ReportsKubernetes

\* A step of addEntry puts one entry behind the entries there were.
AppendsOneEntry ==
  /\ Len(history') = Len(history) + 1
  /\ SubSeq(history', 1, Len(history)) = history
  /\ history'[Len(history')] \in Entries

\* C25: the history is append-only between resets: addEntry adds exactly
\* one entry at the end and leaves the earlier entries and their order as
\* they were, no method but clear and import changes the history otherwise,
\* and getHistory returns the entries in the order they were added.
C25_HistoryAppendOnly ==
  /\ [][ /\ pc' = "addEntry" => AppendsOneEntry
         /\ pc' \notin {"addEntry", "clear", "import"} => history' = history ]_vars
  /\ [](pc = "getHistory" => ret = history)

\* Two entries were added, Teens before Seniors, and returned in that order.
C25_Witness ==
  /\ pc = "getHistory"
  /\ Len(ret) = 2
  /\ ret[1] = [question |-> Q_audience, answer |-> A_teens]
  /\ ret[2] = [question |-> Q_target, answer |-> A_seniors]

(***************************************************************************)
(* Specification of the comprehensive scope validator: one call of         *)
(* performComprehensiveScopeValidation on drawn arguments.                 *)
(***************************************************************************)

MaxComprehensiveFeatures == 3

MaxComprehensiveTimeline == 8

ComprehensiveData ==
  [ features        : SeqsUpTo(FeaturePool, MaxComprehensiveFeatures),
    timelineWeeks   : 0..MaxComprehensiveTimeline,
    techStack       : { <<>>, << T_Kubernetes, T_PostgreSQL >> },
    targetUsers     : {50},
    experienceLevel : {"beginner", "intermediate"},
    mvpGoal         : { <<"l","o","g","i","n">>, <<"s","e","c","u","r","e">> } ]

InitComprehensive ==
  /\ pc = "start"
  /\ args \in [ data : ComprehensiveData ]
  /\ locals = NoLocals
  /\ ret = NoResult
  /\ Constructed

PerformComprehensiveScopeValidation ==
  /\ pc = "start"
  /\ pc' = "performComprehensiveScopeValidation"
  /\ ret' = performComprehensiveScopeValidation(args.data)
  /\ UNCHANGED <<args, locals>>
  /\ UNCHANGED serviceVars

NextComprehensive == PerformComprehensiveScopeValidation

SpecComprehensive == InitComprehensive /\ [][NextComprehensive]_vars

(***************************************************************************)
(* Claims about performComprehensiveScopeValidation                        *)
(***************************************************************************)

ScopeValidated == pc = "performComprehensiveScopeValidation"

\* The timeline sanity check of the call (lines 522-525)
timelineOfCall == checkTimelineSanity(args.data.features, args.data.timelineWeeks, FALSE)

\* C27: in every result of performComprehensiveScopeValidation, valid
\* implies shouldProceed; shouldProceed is false whenever the timeline
\* sanity check is not sane or more than one critical warning was recorded;
\* so shouldBlock() implies that shouldProceed is false.
C27_ValidProceedsAndBlockedDoesNot ==
  ScopeValidated =>
    /\ ret.valid => ret.shouldProceed
    /\ ~timelineOfCall.sane => ~ret.shouldProceed
    /\ getCriticalCount(ret.warnings) > 1 => ~ret.shouldProceed
    /\ shouldBlock(ret.warnings) => ~ret.shouldProceed

\* Three critical warnings: the call blocks and does not proceed.
C27_Witness ==
  /\ ScopeValidated
  /\ shouldBlock(ret.warnings)
  /\ ~timelineOfCall.sane
  /\ ~ret.shouldProceed

\* A valid result, which proceeds.
C27_WitnessValid ==
  /\ ScopeValidated
  /\ ret.valid
  /\ ret.shouldProceed

\* One critical warning only: not valid, and yet it proceeds.
C27_WitnessOneCritical ==
  /\ ScopeValidated
  /\ getCriticalCount(ret.warnings) = 1
  /\ ~ret.valid
  /\ ret.shouldProceed

(***************************************************************************)
(* Specification of the two services side by side: the same entries are    *)
(* added to a fresh service of contextMemory.ts and to a fresh service of  *)
(* part_016.                                                               *)
(***************************************************************************)

\* 'name' without 'projekt'
Q_projectName == <<"P","r","o","j","e","c","t"," ","n","a","m","e","?">>

\* 'target' and 'problem'
Q_targetProblem == <<"W","h","i","c","h"," ","p","r","o","b","l","e","m"," ","d","o","e","s"," ","y","o","u","r"," ","t","a","r","g","e","t"," ","h","a","v","e","?">>

FacetEntries ==
  [ question : {Q_audience, Q_name, Q_features, Q_projectName, Q_targetProblem},
    answer : {A_teens, A_list} ]

MaxFacetEntries == 2

RECURSIVE contextAfter(_)
\* projectContext of contextMemory.ts after addEntry of each entry in turn
contextAfter(entries) ==
  IF entries = <<>> THEN EmptyContext
  ELSE updateProjectContext(contextAfter(SubSeq(entries, 1, Len(entries) - 1)),
                            entries[Len(entries)])

RECURSIVE strategyContextAfter(_)
\* projectContext of part_016 after addEntry of each entry in turn
strategyContextAfter(entries) ==
  IF entries = <<>> THEN EmptyContext
  ELSE updateByStrategy(strategyContextAfter(SubSeq(entries, 1, Len(entries) - 1)),
                        entries[Len(entries)])

InitBothServices ==
  /\ pc = "start"
  /\ args \in [ entries : SeqsUpTo(FacetEntries, MaxFacetEntries) ]
  /\ locals = NoLocals
  /\ ret = NoResult
  /\ Constructed

\* addEntry of every entry on both services, then getProjectContext of both
AddEntriesToBoth ==
  /\ pc = "start"
  /\ pc' = "getProjectContext"
  /\ ret' = [ multiBranch   |-> contextAfter(args.entries),
              strategyTable |-> strategyContextAfter(args.entries) ]
  /\ UNCHANGED <<args, locals>>
  /\ UNCHANGED serviceVars

NextBothServices == AddEntriesToBoth

SpecBothServices == InitBothServices /\ [][NextBothServices]_vars

(***************************************************************************)
(* Claims about the two services                                           *)
(***************************************************************************)

\* C28: the two ContextMemoryService implementations are equivalent: after
\* every sequence of addEntry calls they hold the same projectContext, also
\* for questions that mention several facets ('target' and 'problem') or
\* only one of 'name' and 'projekt'.
C28_SameProjectContext ==
  pc = "getProjectContext" => ret.multiBranch = ret.strategyTable

\* The questions of the drawn entries on which the two services are told
\* apart: the strategy table stops at its first match and takes 'name' alone.
C28_SameOnSingleFacetQuestions ==
  pc = "getProjectContext" =>
    ( (\A i \in 1..Len(args.entries) :
         args.entries[i].question \in {Q_audience, Q_name, Q_features})
        => ret.multiBranch = ret.strategyTable )

\* 'Project name?' sets the name in part_016 only.
C28_NameAlone ==
  /\ pc = "getProjectContext"
  /\ args.entries = << [question |-> Q_projectName, answer |-> A_teens] >>
  /\ ret.multiBranch.name = Undefined
  /\ ret.strategyTable.name = Defined(A_teens)

\* A question with 'target' and 'problem' sets the problem in
\* contextMemory.ts only.
C28_TargetAndProblem ==
  /\ pc = "getProjectContext"
  /\ args.entries = << [question |-> Q_targetProblem, answer |-> A_teens] >>
  /\ ret.multiBranch.targetAudience = Defined(A_teens)
  /\ ret.multiBranch.problem = Defined(A_teens)
  /\ ret.strategyTable.targetAudience = Defined(A_teens)
  /\ ret.strategyTable.problem = Undefined

(***************************************************************************)
(* Further claims about validateProject                                    *)
(***************************************************************************)

\* What validateProject hands to calculateMVPReadiness (line 138)
prdZeroDataOfCall == transformToPRDZeroData(args.data, args.now)

\* featureCount of calculateMVPReadiness for the call
readinessFeatureCount == 3 + Len(prdZeroDataOfCall.scope.nice_to_have)

\* The points the scope, technology and timeline rules take off
furtherDeductions(data, today) ==
  scopeRule(3 + Len(data.scope.nice_to_have)).deduct
    + techRule(Len(split(data.tech.known_frameworks, ","))).deduct
    + timelineRule(weeksUntil(data.launch.target_date, today)).deduct

\* C29: validateProject reports a readiness score of at most 90 and scores
\* a feature count of at least 3: the scorer is always fed pain_level = 7
\* and three feature slots plus at most five extras; so shouldProceed
\* needs the remaining rules to take off at most 30 points.
C29_ReadinessAtMostNinety ==
  ProjectValidated =>
    /\ ret.mvpReadinessScore <= 90
    /\ prdZeroDataOfCall.problem.pain_level = 7
    /\ Len(prdZeroDataOfCall.scope.nice_to_have) <= 5
    /\ readinessFeatureCount >= 3
    /\ ret.mvpReadinessScore = 90 - furtherDeductions(prdZeroDataOfCall, args.now)
    /\ ret.shouldProceed => furtherDeductions(prdZeroDataOfCall, args.now) <= 30
    /\ ret.shouldProceed <=>
         /\ performComprehensiveScopeValidation(
              scopeValidationInput(args.data)).shouldProceed
         /\ furtherDeductions(prdZeroDataOfCall, args.now) <= 30

\* A project that loses no further point: the score is 90 and it proceeds.
C29_Witness ==
  /\ ProjectValidated
  /\ ret.mvpReadinessScore = 90
  /\ ret.shouldProceed

\* Nine core features: three slots and five extras, the ninth is dropped.
C29_WitnessFiveExtras ==
  /\ ProjectValidated
  /\ Len(args.data.mvp.coreFeatures) = 9
  /\ readinessFeatureCount = 8
  /\ ret.mvpReadinessScore <= 60

(***************************************************************************)
(* Specification of the service of contextMemory.ts under questions for    *)
(* its four list properties.                                               *)
(***************************************************************************)

Q_techStack == <<"T","e","c","h"," ","s","t","a","c","k","?">>

Q_risks == <<"M","a","i","n"," ","r","i","s","k","s","?">>

Q_metrics == <<"S","u","c","c","e","s","s"," ","m","e","t","r","i","c","s","?">>

A_single == <<"c","h","a","t">>

\* The property each of the list questions asks for
ListQuestionProperty ==
  [ q \in {Q_features, Q_techStack, Q_risks, Q_metrics} |->
      IF q = Q_features THEN "features"
      ELSE IF q = Q_techStack THEN "techStack"
      ELSE IF q = Q_risks THEN "risks"
      ELSE "successMetrics" ]

ListEntries ==
  [ question : DOMAIN ListQuestionProperty,
    answer : {A_seniors, A_single, A_list, A_commas} ]

MaxListEntries == 2

\* addEntry(entry) of contextMemory.ts with a question for a list property
AddListEntry ==
  /\ Len(history) < MaxListEntries
  /\ \E entry \in ListEntries :
       /\ history' = Append(history, entry)
       /\ projectContext' = updateProjectContext(projectContext, entry)
  /\ pc' = "addEntry"
  /\ ret' = NoResult
  /\ UNCHANGED <<args, locals, cachedContext, contextDirty>>

NextListAnswers == AddListEntry \/ Clear

SpecListAnswers == InitService /\ [][NextListAnswers]_vars

(***************************************************************************)
(* Claims about the list properties                                        *)
(***************************************************************************)

\* What the rule lets an entry make of the context before: a list answer
\* replaces the property the question asks for, a single answer leaves a
\* property that is set as it is and sets one that is not; the other
\* properties stay.
FirstSingleWins(before, after, entry) ==
  /\ after[ListQuestionProperty[entry.question]] =
       IF looksLikeList(trim(entry.answer))
         THEN Defined(listItems(trim(entry.answer)))
       ELSE IF before[ListQuestionProperty[entry.question]].defined
         THEN before[ListQuestionProperty[entry.question]]
       ELSE Defined(<< trim(entry.answer) >>)
  /\ \A property \in DOMAIN before \ {ListQuestionProperty[entry.question]} :
       after[property] = before[property]

\* C30: once features is set, a later addEntry for a feature question with
\* a single-item answer (no comma or newline) leaves features unchanged
\* and a later list answer replaces the whole list; the same rule holds
\* for techStack, risks and successMetrics, in contextMemory.ts and for
\* parseListAnswer of part_016.
C30_FirstSingleWinsListReplaces ==
  /\ [][ pc' = "addEntry" =>
           FirstSingleWins(projectContext, projectContext',
                           history'[Len(history')]) ]_vars
  /\ [](\A entry \in ListEntries :
          FirstSingleWins(projectContext,
                          updateByStrategy(projectContext, entry), entry))

\* features was set by a single answer; a second single answer left it.
C30_Witness ==
  /\ pc = "addEntry"
  /\ history = << [question |-> Q_features, answer |-> A_seniors],
                  [question |-> Q_features, answer |-> A_single] >>
  /\ projectContext.features = Defined(<< trim(A_seniors) >>)

\* risks was set by a single answer; a list answer replaced it.
C30_WitnessReplaced ==
  /\ pc = "addEntry"
  /\ history = << [question |-> Q_risks, answer |-> A_single],
                  [question |-> Q_risks, answer |-> A_list] >>
  /\ projectContext.risks = Defined(listItems(A_list))
  /\ Len(projectContext.risks.value) > 1

====
